---- MODULE Spec2Model ----
(***************************************************************************)
(* InfraDon2: a Vue component that keeps two local PouchDB collections     *)
(* (games, comments+likes), edits them through asynchronous handlers and   *)
(* synchronises them with two remote collections on demand.                *)
(*                                                                         *)
(* The handlers are modelled from src/InfraDon2/src/components/            *)
(* TheWelcome.vue (and the paginated variant of src/unnamed/part_000).     *)
(* Every `await` of a handler is a point where other handlers run, so a    *)
(* handler is a task that advances one awaited call at a time.             *)
(* The document store, the conflict resolver and the replication engine    *)
(* are not in the repository's sources (the handlers call a library);      *)
(* they are modelled from sections 3, 4.1, 4.5 and 4.6 of the spec.        *)
(***************************************************************************)
EXTENDS Integers, Sequences, FiniteSets, TLC

\* ------------------------------------------------------------------ bounds
MaxClock == 2        \* the millisecond clock takes the values 1..MaxClock
MaxGen == 2          \* no revision of a generation above MaxGen is written
MaxTasks == 2        \* handlers that may be suspended at an await at once
MaxDocs == 12        \* documents of the games store in the paginated listing
MaxRevs == 3         \* a peer writes while the remote holds fewer revisions of the id
MaxText == 2         \* characters of a search text

\* ------------------------------------------------------- program constants
gamesPerPage == 10

Titles == {1, 2}                 \* titles typed into the form
Times == 1..MaxClock             \* values of Date.now()
DocIds == Times                  \* ids of the games collection: game_<ms>
PageIds == 1..MaxDocs            \* ids of the games of the paginated listing
CommentIds == {"comment", "like"} \X Times   \* comment_<ms>, like_<ms>
Slots == 1..MaxTasks

VARIABLES
  gamesDB,          \* local games collection       (PouchDB 'infradon-games-local')
  commentsDB,       \* local comments collection    (PouchDB 'infradon-comments-local')
  remoteGamesDB,    \* remote games collection
  remoteCommentsDB, \* remote comments collection
  ckpt,             \* replication checkpoints, one per collection and direction
  isOffline,        \* the offline flag
  gamesData,        \* the listed games, a sequence of ids
  hasMoreGames,     \* the "more available" flag of the paginated listing
  commentsByGame,   \* the listed comments of each game, a sequence of ids
  likesCount,       \* the displayed like counter of each game
  gameImages,       \* the games whose image is cached for display
  searchTitle,      \* the text of the search field
  likesDocsByGame,  \* the like documents last fetched per game (toggling variant)
  tasks,            \* the handlers suspended at an await, by slot
  now,              \* Date.now()
  ev                \* the last call made: operation, id, outcome

dbs == <<gamesDB, commentsDB, remoteGamesDB, remoteCommentsDB>>
ui == <<gamesData, hasMoreGames, commentsByGame, likesCount, gameImages>>
vars == <<gamesDB, commentsDB, remoteGamesDB, remoteCommentsDB, ckpt, isOffline,
          gamesData, hasMoreGames, commentsByGame, likesCount, gameImages,
          searchTitle, likesDocsByGame, tasks, now, ev>>

\* --------------------------------------------------------------- revisions
\* A revision is (generation, hash token). The token is derived from the
\* parent's token and the content written, so it names the whole history.
MaxOf(S) == CHOOSE x \in S : \A y \in S : y <= x
Plain == 1 + MaxOf(Titles \cup Times)   \* content codes of bodies without an image
Base == 2 * Plain

RECURSIVE Pow(_, _)
Pow(b, n) == IF n = 0 THEN 1 ELSE b * Pow(b, n - 1)

NoRev == [gen |-> 0, hash |-> 0]
\* A body is the kind of document, its game fields (title stands for title,
\* editor, country and release year; 0 is a blank form), the game it belongs
\* to, and whether an attachment named 'image' is bound to it.
NoBody == [kind |-> "none", title |-> 0, gameId |-> 0, image |-> 0]
GameBody(t) == [kind |-> "game", title |-> t, gameId |-> 0, image |-> 0]
OtherBody == [kind |-> "other", title |-> 0, gameId |-> 0, image |-> 0]
CommentBody(g) == [kind |-> "comment", title |-> 0, gameId |-> g, image |-> 0]
LikeBody(g) == [kind |-> "like", title |-> 0, gameId |-> g, image |-> 0]

\* The content code a hash token is derived from; a tombstone has code 0.
Code(body, deleted) ==
  IF deleted THEN 0
  ELSE IF body.kind = "game" THEN body.title + body.image * Plain
  ELSE IF body.kind \in {"comment", "like"} THEN body.gameId
  ELSE 1

NewRev(parent, body, deleted) ==
  [gen |-> parent.gen + 1, hash |-> parent.hash * Base + Code(body, deleted)]

\* a is a proper ancestor of b
IsAncestor(a, b) ==
  /\ a.gen < b.gen
  /\ b.hash \div Pow(Base, b.gen - a.gen) = a.hash

\* ---------------------------------------------------------- document store
NoLeaf == [rev |-> NoRev, body |-> NoBody, deleted |-> FALSE]
NoDoc == [cur |-> NoLeaf, conflicts |-> {}]

Exists(doc) == doc.cur.rev.gen > 0
Leaves(doc) == IF Exists(doc) THEN {doc.cur} \cup doc.conflicts ELSE {}
Live(doc) == Exists(doc) /\ ~doc.cur.deleted

\* get(id): the current revision, NotFound if absent or tombstoned
Get(db, id) ==
  IF Live(db[id]) THEN [ok |-> TRUE, doc |-> db[id].cur]
  ELSE [ok |-> FALSE, doc |-> NoLeaf]

\* put(doc, expectedParentRevision?) and remove(id, expectedParentRevision):
\* a write succeeds only when the stated parent is the current revision
\* (no parent stated: only when the id is unseen); otherwise Conflict.
\* A game document must carry its required fields: InvalidDocument otherwise.
Valid(body, deleted) == deleted \/ body.kind # "game" \/ body.title # 0

PutUnchecked(db, id, parent, body, deleted) ==
  IF parent = db[id].cur.rev /\ (Exists(db[id]) => ~db[id].cur.deleted)
  THEN [ok |-> TRUE, res |-> "ok",
        db |-> [db EXCEPT ![id].cur =
                  [rev |-> NewRev(parent, body, deleted),
                   body |-> body, deleted |-> deleted]]]
  ELSE [ok |-> FALSE, res |-> "Conflict", db |-> db]
Put(db, id, parent, body, deleted) ==
  IF ~Valid(body, deleted) THEN [ok |-> FALSE, res |-> "InvalidDocument", db |-> db]
  ELSE IF parent = db[id].cur.rev /\ (Exists(db[id]) => ~db[id].cur.deleted)
  THEN [ok |-> TRUE, res |-> "ok",
        db |-> [db EXCEPT ![id].cur =
                  [rev |-> NewRev(parent, body, deleted),
                   body |-> body, deleted |-> deleted]]]
  ELSE [ok |-> FALSE, res |-> "Conflict", db |-> db]

Remove(db, id, parent) == Put(db, id, parent, NoBody, TRUE)

\* putAttachment(id, 'image', expectedParentRevision, payload, type) and
\* removeAttachment(id, 'image', expectedParentRevision): a new revision of
\* the document with the binding added or removed, under the revision rule
\* of put
PutAttachment(db, id, parent) ==
  Put(db, id, parent, [db[id].cur.body EXCEPT !.image = 1], FALSE)
RemoveAttachment(db, id, parent) ==
  Put(db, id, parent, [db[id].cur.body EXCEPT !.image = 0], FALSE)

\* find({selector: {type, gameId}}): the live documents of one kind of a game
FindByGame(db, kind, g) ==
  {id \in DOMAIN db : Live(db[id]) /\ db[id].cur.body.kind = kind
                      /\ db[id].cur.body.gameId = g}

\* ---------------------------------------------------------------- helpers
RECURSIVE SortedSeq(_)
SortedSeq(S) ==
  IF S = {} THEN <<>>
  ELSE LET m == CHOOSE x \in S : \A y \in S : x <= y
       IN <<m>> \o SortedSeq(S \ {m})

\* documents of one kind in index order (createdAt ascending)
RECURSIVE SetToSeq(_)
SetToSeq(S) ==
  IF S = {} THEN <<>>
  ELSE LET m == CHOOSE x \in S : \A y \in S : x[2] <= y[2]
       IN <<m>> \o SetToSeq(S \ {m})

Range(s) == {s[i] : i \in 1..Len(s)}
Reverse(s) == [i \in 1..Len(s) |-> s[Len(s) + 1 - i]]

\* ------------------------------------------------------------------ tasks
\* A handler suspended at an await: the handler, the awaited call it resumes
\* at, and its local variables (id, the document read, the form value, the
\* rest of a loop).
NoTask == [op |-> "none", pc |-> "", id |-> 0, g |-> 0, read |-> NoLeaf, arg |-> 0,
           todo |-> <<>>, docs |-> <<>>, diff |-> {}, batch |-> {}, clean |-> FALSE, pos |-> 0,
           img |-> FALSE, text |-> <<>>]
Task(op, pc) == [NoTask EXCEPT !.op = op, !.pc = pc]

HasFree == \E s \in Slots : tasks[s].op = "none"
FreeSlot == CHOOSE s \in Slots : tasks[s].op = "none" /\ \A r \in Slots : r < s => tasks[r].op # "none"
Start(t) == [tasks EXCEPT ![FreeSlot] = t]
Event(op, id, arg, res) == [op |-> op, id |-> id, arg |-> arg, res |-> res, by |-> ""]
\* a step of fetchData, with the handler that called it
FetchEvent(handler, g, res) == [op |-> "fetchData", id |-> 0, arg |-> 0, res |-> res, by |-> handler]
Quiescent == \A s \in Slots : tasks[s].op = "none"
\* one handler may run while another is suspended at an await
FewRunning == Cardinality({s \in Slots : tasks[s].op # "none"}) < 2

\* a write to a games store ends the quiet period of the syncs in progress
Touch(ts, changed) ==
  [s \in Slots |-> IF changed /\ ts[s].op = "sync" THEN [ts[s] EXCEPT !.clean = FALSE] ELSE ts[s]]

\* the games shown in the template (v-for over gamesData)
Listed(id) == id \in Range(gamesData)


Finish(s) == [tasks EXCEPT ![s] = NoTask]
At(s, op, pc) == tasks[s].op = op /\ tasks[s].pc = pc

\* ------------------------------------------------------------------ clock
Tick ==
  /\ now < MaxClock
  /\ now' = now + 1
  /\ ev' = Event("tick", 0, 0, "ok")
  /\ UNCHANGED <<dbs, ckpt, isOffline, searchTitle, likesDocsByGame, ui, tasks>>

\* --------------------------------------------------------------- fetchData
\* find({_id: {$gt: null}}) filtered to the documents with a game body
LiveGames(db) == {id \in DOMAIN db : Live(db[id]) /\ db[id].cur.body.kind = "game"}

\* fetchCommentsForGame: the comments of a game, createdAt descending
CommentList(db, g) == Reverse(SetToSeq(FindByGame(db, "comment", g)))
\* fetchLikesForGame: the number of like documents of a game
LikesOf(db, g) == Cardinality(FindByGame(db, "like", g))

\* loadGameImage: caches the image of a game that has one, and leaves the
\* cache as it is otherwise
HasImage(db, id) == Live(db[id]) /\ db[id].cur.body.image = 1
LoadGameImage(db, g) ==
  IF HasImage(db, g) THEN [gameImages EXCEPT ![g] = TRUE] ELSE gameImages

\* all live documents of the games store in id order: find({_id: {$gt: null}})
\* (allDocs in the single-store variant)
AllDocs(db) == SortedSeq({id \in DOMAIN db : Live(db[id])})

\* .filter(doc => doc?.biblio?.games)
HasGamesAny(db, id) == TRUE
HasGames(db, id) == db[id].cur.body.kind = "game"
\* doc._id.startsWith("_"): id 0 stands for an id such as _design/games
Reserved(id) == id = 0

\* the documents of a listing that pass the two filters
OnlyGames(db, seq) == SelectSeq(seq, LAMBDA id : HasGames(db, id) /\ ~Reserved(id))

\* fetchData, first await: the listing replaces gamesData
FetchDataFind(s) ==
  /\ tasks[s].op # "none" /\ tasks[s].pc = "find"
  /\ LET list == OnlyGames(gamesDB, AllDocs(gamesDB)) IN
     /\ gamesData' = list
     /\ tasks' = IF list = <<>> THEN Finish(s)
                 ELSE [tasks EXCEPT ![s].pc = "perGame", ![s].todo = list]
  /\ ev' = FetchEvent(tasks[s].op, 0, IF gamesData' = <<>> THEN "done" ELSE "listed")
  /\ UNCHANGED <<dbs, ckpt, isOffline, searchTitle, likesDocsByGame, hasMoreGames, commentsByGame, likesCount, gameImages, now>>

\* fetchData, the loop: fetchCommentsForGame and fetchLikesForGame of one game
FetchPerGame(s) ==
  /\ tasks[s].op # "none" /\ tasks[s].pc = "perGame"
  /\ LET g == Head(tasks[s].todo)
         rest == Tail(tasks[s].todo) IN
     /\ commentsByGame' = [commentsByGame EXCEPT ![g] = CommentList(commentsDB, g)]
     /\ likesCount' = [likesCount EXCEPT ![g] = LikesOf(commentsDB, g)]
     /\ gameImages' = LoadGameImage(gamesDB, g)
     /\ tasks' = IF rest = <<>> THEN Finish(s) ELSE [tasks EXCEPT ![s].todo = rest]
     /\ ev' = FetchEvent(tasks[s].op, g, IF rest = <<>> THEN "done" ELSE "fetched")
  /\ UNCHANGED <<dbs, ckpt, isOffline, searchTitle, likesDocsByGame, gamesData, hasMoreGames, now>>

\* ------------------------------------------------------------ game handlers
\* addGame with no image selected: put a new document, then fetchData
AddGame(t) ==
  /\ HasFree
  /\ LET r == Put(gamesDB, now, NoRev, GameBody(t), FALSE) IN
     /\ gamesDB' = r.db
     /\ tasks' = IF r.ok THEN Touch(Start(Task("addGame", "find")), TRUE) ELSE tasks
     /\ ev' = Event("addGame", now, t, r.res)
  /\ UNCHANGED <<commentsDB, remoteGamesDB, remoteCommentsDB, ckpt, isOffline, searchTitle, likesDocsByGame, ui, now>>

\* updateGame: get(id) ...
UpdateGame(id, t) ==
  /\ HasFree /\ Listed(id)
  /\ LET r == Get(gamesDB, id) IN
     /\ r.ok => r.doc.rev.gen < MaxGen
     /\ tasks' = IF r.ok
                 THEN Start([Task("updateGame", "put") EXCEPT !.id = id, !.read = r.doc, !.arg = t])
                 ELSE tasks
     /\ ev' = Event("updateGame", id, t, IF r.ok THEN "read" ELSE "NotFound")
  /\ UNCHANGED <<dbs, ckpt, isOffline, searchTitle, likesDocsByGame, ui, now>>

\* the revision updateGame states as the parent: the _rev of the document read
PutParentLatest(db, t) == db[t.id].cur.rev
PutParent(db, t) == t.read.rev

\* doc.biblio.games[0] = {title, ...}
UpdatedBodyStale(t) == t.read.body
UpdatedBodyFresh(t) == GameBody(t.arg)
UpdatedBody(t) == [t.read.body EXCEPT !.title = t.arg]

\* ... put(doc), then fetchData
UpdateGamePut(s) ==
  /\ At(s, "updateGame", "put")
  /\ LET t == tasks[s]
         r == Put(gamesDB, t.id, PutParent(gamesDB, t), UpdatedBody(t), FALSE) IN
     /\ gamesDB' = r.db
     /\ tasks' = IF ~r.ok THEN Finish(s)
                 ELSE IF t.img
                 THEN Touch([tasks EXCEPT ![s].pc = "putAttachment",
                                          ![s].read = r.db[t.id].cur], TRUE)
                 ELSE Touch([tasks EXCEPT ![s].pc = "find"], TRUE)
     /\ ev' = Event("updateGame.put", t.id, t.arg, r.res)
  /\ UNCHANGED <<commentsDB, remoteGamesDB, remoteCommentsDB, ckpt, isOffline, searchTitle, likesDocsByGame, ui, now>>

\* ------------------------------------------------------------------ images
\* addGame with an image selected: put the new document, then read the file;
\* the handler returns and the upload resumes when the file is read
AddGameImage(t) ==
  /\ HasFree
  /\ LET r == Put(gamesDB, now, NoRev, GameBody(t), FALSE) IN
     /\ gamesDB' = r.db
     /\ tasks' = IF r.ok
                 THEN Touch(Start([Task("addGame", "putAttachment") EXCEPT
                                     !.id = now, !.read = r.db[now].cur, !.img = TRUE]), TRUE)
                 ELSE tasks
     /\ ev' = Event("addGame", now, t, r.res)
  /\ UNCHANGED <<commentsDB, remoteGamesDB, remoteCommentsDB, ckpt, isOffline, searchTitle, likesDocsByGame, ui, now>>

\* updateGame with an image selected: get(id), then put as without an image
UpdateGameImage(id, t) ==
  /\ HasFree /\ Listed(id)
  /\ LET r == Get(gamesDB, id) IN
     /\ r.ok => r.doc.rev.gen < MaxGen
     /\ tasks' = IF r.ok
                 THEN Start([Task("updateGame", "put") EXCEPT
                               !.id = id, !.read = r.doc, !.arg = t, !.img = TRUE])
                 ELSE tasks
     /\ ev' = Event("updateGame", id, t, IF r.ok THEN "read" ELSE "NotFound")
  /\ UNCHANGED <<dbs, ckpt, isOffline, searchTitle, likesDocsByGame, ui, now>>

\* the revision the upload states as the parent: savedDoc.rev, the revision
\* the earlier put returned
AttachParentLatest(db, t) == db[t.id].cur.rev
AttachParent(db, t) == t.read.rev

\* reader.onload: putAttachment(id, 'image', savedDoc.rev, ...), then
\* fetchData; a rejection is not caught and ends the callback
PutImage(s) ==
  /\ tasks[s].op \in {"addGame", "updateGame"} /\ tasks[s].pc = "putAttachment"
  /\ LET t == tasks[s]
         r == PutAttachment(gamesDB, t.id, AttachParent(gamesDB, t)) IN
     /\ gamesDB' = r.db
     /\ tasks' = IF r.ok THEN Touch([tasks EXCEPT ![s].pc = "find"], TRUE) ELSE Finish(s)
     /\ ev' = [Event("putAttachment", t.id, 0, r.res) EXCEPT !.by = t.op]
  /\ UNCHANGED <<commentsDB, remoteGamesDB, remoteCommentsDB, ckpt, isOffline, searchTitle, likesDocsByGame, ui, now>>

\* if (doc._attachments && doc._attachments['image'])
ShouldRemoveAlways(doc) == TRUE
ShouldRemove(doc) == doc.body.image = 1

\* deleteGameImage: get(gameId); nothing more when the document has no
\* image or the get fails (the error is logged)
DeleteGameImage(id) ==
  /\ HasFree /\ Listed(id)
  /\ LET r == Get(gamesDB, id) IN
     /\ r.ok => r.doc.rev.gen < MaxGen
     /\ tasks' = IF r.ok /\ ShouldRemove(r.doc)
                 THEN Start([Task("deleteGameImage", "removeAttachment") EXCEPT
                               !.id = id, !.read = r.doc])
                 ELSE tasks
     /\ ev' = Event("deleteGameImage", id, 0,
                    IF ~r.ok THEN "NotFound" ELSE IF ShouldRemove(r.doc) THEN "read" ELSE "noImage")
  /\ UNCHANGED <<dbs, ckpt, isOffline, searchTitle, likesDocsByGame, ui, now>>

\* ... removeAttachment(gameId, 'image', doc._rev), delete the cached image,
\* then fetchData; a failure is logged and nothing else is done
RemoveImage(s) ==
  /\ At(s, "deleteGameImage", "removeAttachment")
  /\ LET t == tasks[s]
         r == RemoveAttachment(gamesDB, t.id, t.read.rev) IN
     /\ gamesDB' = r.db
     /\ gameImages' = IF r.ok THEN [gameImages EXCEPT ![t.id] = FALSE] ELSE gameImages
     /\ tasks' = IF r.ok THEN Touch([tasks EXCEPT ![s].pc = "find"], TRUE) ELSE Finish(s)
     /\ ev' = Event("removeAttachment", t.id, 0, r.res)
  /\ UNCHANGED <<commentsDB, remoteGamesDB, remoteCommentsDB, ckpt, isOffline, searchTitle, likesDocsByGame,
                 gamesData, hasMoreGames, commentsByGame, likesCount, now>>

\* deleteGame: get(id) ...
DeleteGame(id) ==
  /\ HasFree /\ Listed(id)
  /\ LET r == Get(gamesDB, id) IN
     /\ r.ok => r.doc.rev.gen < MaxGen
     /\ tasks' = IF r.ok
                 THEN Start([Task("deleteGame", "remove") EXCEPT !.id = id, !.g = id, !.read = r.doc])
                 ELSE tasks
     /\ ev' = Event("deleteGame", id, 0, IF r.ok THEN "read" ELSE "NotFound")
  /\ UNCHANGED <<dbs, ckpt, isOffline, searchTitle, likesDocsByGame, ui, now>>

\* ... remove(doc) ...
DeleteGameRemove(s) ==
  /\ At(s, "deleteGame", "remove")
  /\ LET t == tasks[s]
         r == Remove(gamesDB, t.id, t.read.rev) IN
     /\ gamesDB' = r.db
     /\ tasks' = IF r.ok THEN Touch([tasks EXCEPT ![s].pc = "findComments"], TRUE) ELSE Finish(s)
     /\ ev' = Event("deleteGame.remove", t.id, 0, IF r.ok THEN "ok" ELSE "Conflict")
  /\ UNCHANGED <<commentsDB, remoteGamesDB, remoteCommentsDB, ckpt, isOffline, searchTitle, likesDocsByGame, ui, now>>

\* the documents a find returns, each with the revision it had then
Snapshot(db, ids) == [i \in 1..Len(ids) |-> <<ids[i], db[ids[i]].cur.rev>>]

\* ... find the comments (then the likes) of the game ...
DeleteGameFind(s) ==
  /\ tasks[s].op = "deleteGame" /\ tasks[s].pc \in {"findComments", "findLikes"}
  /\ LET t == tasks[s]
         kind == IF t.pc = "findComments" THEN "comment" ELSE "like"
         found == Snapshot(commentsDB, SetToSeq(FindByGame(commentsDB, kind, t.id)))
         next == IF found # <<>> THEN (IF kind = "comment" THEN "removeComments" ELSE "removeLikes")
                 ELSE IF kind = "comment" THEN "findLikes" ELSE "find" IN
     /\ tasks' = [tasks EXCEPT ![s].pc = next, ![s].docs = found]
     /\ ev' = Event("deleteGame.find", t.id, 0, kind)
  /\ UNCHANGED <<dbs, ckpt, isOffline, searchTitle, likesDocsByGame, ui, now>>

\* ... and remove each of them, one await per document; then fetchData
DeleteGameCascade(s) ==
  /\ tasks[s].op = "deleteGame" /\ tasks[s].pc \in {"removeComments", "removeLikes"}
  /\ LET t == tasks[s]
         d == Head(t.docs)
         rest == Tail(t.docs)
         r == Remove(commentsDB, d[1], d[2])
         next == IF rest # <<>> THEN t.pc
                 ELSE IF t.pc = "removeComments" THEN "findLikes" ELSE "find" IN
     /\ commentsDB' = r.db
     /\ tasks' = IF r.ok THEN [tasks EXCEPT ![s].pc = next, ![s].docs = rest] ELSE Finish(s)
     /\ ev' = Event("deleteGame.cascade", d[1], t.id, IF r.ok THEN "ok" ELSE "Conflict")
  /\ UNCHANGED <<gamesDB, remoteGamesDB, remoteCommentsDB, ckpt, isOffline, searchTitle, likesDocsByGame, ui, now>>

\* --------------------------------------------------- comments and likes
\* addComment: put a comment document ...
AddComment(g) ==
  /\ HasFree /\ Listed(g)
  /\ LET id == <<"comment", now>>
         r == Put(commentsDB, id, NoRev, CommentBody(g), FALSE) IN
     /\ commentsDB' = r.db
     /\ tasks' = IF r.ok THEN Start([Task("addComment", "unshift") EXCEPT !.g = g, !.arg = now])
                 ELSE tasks
     /\ ev' = Event("addComment", id, g, IF r.ok THEN "ok" ELSE "Conflict")
  /\ UNCHANGED <<gamesDB, remoteGamesDB, remoteCommentsDB, ckpt, isOffline, searchTitle, likesDocsByGame, ui, now>>

\* ... and insert it at the head of the listed comments
AddCommentUnshift(s) ==
  /\ At(s, "addComment", "unshift")
  /\ LET t == tasks[s] IN
     commentsByGame' = [commentsByGame EXCEPT ![t.g] = <<<<"comment", t.arg>>>> \o @]
  /\ tasks' = Finish(s)
  /\ ev' = Event("addComment.unshift", <<"comment", tasks[s].arg>>, tasks[s].g, "done")
  /\ UNCHANGED <<dbs, ckpt, isOffline, searchTitle, likesDocsByGame, gamesData, hasMoreGames, likesCount, gameImages, now>>

\* deleteComment: get(commentId) ...
DeleteComment(c, g) ==
  /\ HasFree /\ Listed(g) /\ c \in Range(commentsByGame[g])
  /\ LET r == Get(commentsDB, c) IN
     /\ tasks' = IF r.ok
                 THEN Start([Task("deleteComment", "remove") EXCEPT !.g = g, !.arg = c[2], !.read = r.doc])
                 ELSE tasks
     /\ ev' = Event("deleteComment", c, g, IF r.ok THEN "read" ELSE "NotFound")
  /\ UNCHANGED <<dbs, ckpt, isOffline, searchTitle, likesDocsByGame, ui, now>>

\* ... remove(doc) ...
DeleteCommentRemove(s) ==
  /\ At(s, "deleteComment", "remove")
  /\ LET t == tasks[s]
         r == Remove(commentsDB, <<"comment", t.arg>>, t.read.rev) IN
     /\ commentsDB' = r.db
     /\ tasks' = IF r.ok THEN [tasks EXCEPT ![s].pc = "fetchComments"] ELSE Finish(s)
     /\ ev' = Event("deleteComment.remove", <<"comment", t.arg>>, t.g, IF r.ok THEN "ok" ELSE "Conflict")
  /\ UNCHANGED <<gamesDB, remoteGamesDB, remoteCommentsDB, ckpt, isOffline, searchTitle, likesDocsByGame, ui, now>>

\* ... fetchCommentsForGame(gameId)
DeleteCommentFetch(s) ==
  /\ At(s, "deleteComment", "fetchComments")
  /\ LET g == tasks[s].g IN
     commentsByGame' = [commentsByGame EXCEPT ![g] = CommentList(commentsDB, g)]
  /\ tasks' = Finish(s)
  /\ ev' = Event("deleteComment.fetch", <<"comment", tasks[s].arg>>, tasks[s].g, "done")
  /\ UNCHANGED <<dbs, ckpt, isOffline, searchTitle, likesDocsByGame, gamesData, hasMoreGames, likesCount, gameImages, now>>

\* toggleLike: put a like document ...
ToggleLike(g) ==
  /\ HasFree /\ Listed(g)
  /\ LET id == <<"like", now>>
         r == Put(commentsDB, id, NoRev, LikeBody(g), FALSE) IN
     /\ commentsDB' = r.db
     /\ tasks' = IF r.ok THEN Start([Task("toggleLike", "increment") EXCEPT !.g = g, !.arg = now])
                 ELSE tasks
     /\ ev' = Event("toggleLike", id, g, IF r.ok THEN "ok" ELSE "Conflict")
  /\ UNCHANGED <<gamesDB, remoteGamesDB, remoteCommentsDB, ckpt, isOffline, searchTitle, likesDocsByGame, ui, now>>

\* ... and likesCount[gameId]++
ToggleLikeIncrement(s) ==
  /\ At(s, "toggleLike", "increment")
  /\ likesCount' = [likesCount EXCEPT ![tasks[s].g] = @ + 1]
  /\ tasks' = Finish(s)
  /\ ev' = Event("toggleLike.increment", <<"like", tasks[s].arg>>, tasks[s].g, "done")
  /\ UNCHANGED <<dbs, ckpt, isOffline, searchTitle, likesDocsByGame, gamesData, hasMoreGames, commentsByGame, gameImages, now>>

\* toggleLike of the toggling variant: with a fetched like, get the last one
\* fetched and remove it; with none, put a new like document
ToggleLikeCached(g) ==
  /\ HasFree /\ Listed(g)
  /\ LET likes == likesDocsByGame[g] IN
     IF likes # <<>>
     THEN LET id == likes[Len(likes)]
              r == Get(commentsDB, id) IN
          /\ commentsDB' = commentsDB
          /\ tasks' = IF r.ok
                      THEN Start([Task("toggleLike", "remove") EXCEPT !.g = g, !.arg = id[2], !.read = r.doc])
                      ELSE tasks
          /\ ev' = Event("toggleLike", id, g, IF r.ok THEN "read" ELSE "NotFound")
     ELSE LET id == <<"like", now>>
              r == Put(commentsDB, id, NoRev, LikeBody(g), FALSE) IN
          /\ commentsDB' = r.db
          /\ tasks' = IF r.ok
                      THEN Start([Task("toggleLike", "fetchLikes") EXCEPT !.g = g, !.arg = now])
                      ELSE tasks
          /\ ev' = Event("toggleLike", id, g, IF r.ok THEN "ok" ELSE "Conflict")
  /\ UNCHANGED <<gamesDB, remoteGamesDB, remoteCommentsDB, ckpt, isOffline, searchTitle,
                 likesDocsByGame, ui, now>>

\* ... remove(doc) of the like read
ToggleLikeRemove(s) ==
  /\ At(s, "toggleLike", "remove")
  /\ LET t == tasks[s]
         r == Remove(commentsDB, <<"like", t.arg>>, t.read.rev) IN
     /\ commentsDB' = r.db
     /\ tasks' = IF r.ok THEN [tasks EXCEPT ![s].pc = "fetchLikes"] ELSE Finish(s)
     /\ ev' = Event("toggleLike.remove", <<"like", t.arg>>, t.g, r.res)
  /\ UNCHANGED <<gamesDB, remoteGamesDB, remoteCommentsDB, ckpt, isOffline, searchTitle,
                 likesDocsByGame, ui, now>>

\* ... fetchLikesForGame: the like documents found and their number
ToggleLikeFetch(s) ==
  /\ At(s, "toggleLike", "fetchLikes")
  /\ LET g == tasks[s].g
         docs == SetToSeq(FindByGame(commentsDB, "like", g)) IN
     /\ likesDocsByGame' = [likesDocsByGame EXCEPT ![g] = docs]
     /\ likesCount' = [likesCount EXCEPT ![g] = Len(docs)]
  /\ tasks' = Finish(s)
  /\ ev' = Event("toggleLike.fetchLikes", 0, tasks[s].g, "done")
  /\ UNCHANGED <<dbs, ckpt, isOffline, searchTitle, gamesData, hasMoreGames, commentsByGame,
                 gameImages, now>>

\* ------------------------------------------------------ conflict resolver
\* Resolve(current, incoming): higher generation wins; on a tie the higher
\* hash token wins (tokens of one generation have one width, so the
\* lexicographic order of the tokens is the order of their digests).
ResolveTieIncoming(a, b) ==
  IF a.rev.gen > b.rev.gen THEN [winner |-> a, loser |-> b]
  ELSE [winner |-> b, loser |-> a]
ResolveIncomingWins(a, b) == [winner |-> b, loser |-> a]
ResolveLowerHash(a, b) ==
  IF a.rev.gen > b.rev.gen \/ (a.rev.gen = b.rev.gen /\ a.rev.hash < b.rev.hash)
  THEN [winner |-> a, loser |-> b]
  ELSE [winner |-> b, loser |-> a]
Resolve(a, b) ==
  IF a.rev.gen > b.rev.gen \/ (a.rev.gen = b.rev.gen /\ a.rev.hash > b.rev.hash)
  THEN [winner |-> a, loser |-> b]
  ELSE [winner |-> b, loser |-> a]

\* the revision is a leaf of the document or an ancestor of one
Known(doc, rev) == \E l \in Leaves(doc) : l.rev = rev \/ IsAncestor(rev, l.rev)
Divergent(a, b) == a # b /\ ~IsAncestor(a, b) /\ ~IsAncestor(b, a)

\* a revision arriving by replication is committed: it extends the branch it
\* descends from, and when it diverges from the current revision the
\* resolver picks the winner and the loser is kept as a conflict
CommitKeepStale(doc, in) ==
  IF ~Exists(doc) THEN [cur |-> in, conflicts |-> {}]
  ELSE IF Known(doc, in.rev) THEN doc
  ELSE IF IsAncestor(doc.cur.rev, in.rev) THEN [doc EXCEPT !.cur = in]
  ELSE LET w == Resolve(doc.cur, in)
       IN [cur |-> w.winner, conflicts |-> doc.conflicts \cup {w.loser}]
CommitDropLoser(doc, in) ==
  IF ~Exists(doc) THEN [cur |-> in, conflicts |-> {}]
  ELSE IF Known(doc, in.rev) THEN doc
  ELSE [cur |-> Resolve(doc.cur, in).winner, conflicts |-> {}]
Commit(doc, in) ==
  IF ~Exists(doc) THEN [cur |-> in, conflicts |-> {}]
  ELSE IF Known(doc, in.rev) THEN doc
  ELSE IF IsAncestor(doc.cur.rev, in.rev) THEN [doc EXCEPT !.cur = in]
  ELSE LET kept == {c \in doc.conflicts : ~IsAncestor(c.rev, in.rev)}
           w == Resolve(doc.cur, in)
       IN [cur |-> w.winner, conflicts |-> kept \cup {w.loser}]

RECURSIVE CommitAll(_, _)
CommitAll(db, batch) ==
  IF batch = {} THEN db
  ELSE LET x == CHOOSE y \in batch : TRUE
       IN CommitAll([db EXCEPT ![x[1]] = Commit(@, x[2])], batch \ {x})

\* get(id, includeConflicts = true)
GetWithConflicts(db, id) == [doc |-> db[id].cur, conflicts |-> db[id].conflicts]

\* ----------------------------------------------------- replication engine
\* The four replications of a manual sync, in the order of the awaits:
\* 1 games push, 2 games pull, 3 comments push, 4 comments pull.
Channel(i) == CASE i = 1 -> "games.push" [] i = 2 -> "games.pull"
                [] i = 3 -> "comments.push" [] OTHER -> "comments.pull"
Src(i) == CASE i = 1 -> gamesDB [] i = 2 -> remoteGamesDB
            [] i = 3 -> commentsDB [] OTHER -> remoteCommentsDB
Dst(i) == CASE i = 1 -> remoteGamesDB [] i = 2 -> gamesDB
            [] i = 3 -> remoteCommentsDB [] OTHER -> commentsDB
WriteDst(i, v) ==
  /\ remoteGamesDB' = IF i = 1 THEN v ELSE remoteGamesDB
  /\ gamesDB' = IF i = 2 THEN v ELSE gamesDB
  /\ remoteCommentsDB' = IF i = 3 THEN v ELSE remoteCommentsDB
  /\ commentsDB' = IF i = 4 THEN v ELSE commentsDB

\* the revisions a document holds: its leaves and their ancestors
History(doc) ==
  UNION {{l.rev} \cup {[gen |-> j, hash |-> l.rev.hash \div Pow(Base, l.rev.gen - j)] :
                         j \in 1..(l.rev.gen - 1)} : l \in Leaves(doc)}

\* the position of a store's change log: the number of revisions written
RECURSIVE SumOver(_, _)
SumOver(db, ids) ==
  IF ids = {} THEN 0
  ELSE LET id == CHOOSE x \in ids : TRUE
       IN Cardinality(History(db[id])) + SumOver(db, ids \ {id})
Position(db) == SumOver(db, DOMAIN db)

\* the (id, leaf) pairs present in the source and absent, by revision, in
\* the destination
FullDiff(i) ==
  {x \in UNION {{<<id, l>> : l \in Leaves(Src(i)[id])} : id \in DOMAIN Src(i)} :
     ~Known(Dst(i)[x[1]], x[2].rev)}

\* Diffing: nothing when the source is at the checkpoint, a full compare
\* otherwise
DiffResend(i) == UNION {{<<id, l>> : l \in Leaves(Src(i)[id])} : id \in DOMAIN Src(i)}
Diff(i) == IF ckpt[Channel(i)] = Position(Src(i)) THEN {} ELSE FullDiff(i)

IsRun(t) == t.op \in {"sync", "startupGames", "startupComments"}

\* Idle -> Diffing happened when the run was started; Diffing -> Transferring
ReplDiffSkip(s) ==
  /\ IsRun(tasks[s]) /\ tasks[s].pc = "Diffing"
  /\ tasks' = [tasks EXCEPT ![s].pc = IF Diff(tasks[s].arg) = {} THEN "Checkpointing"
                                      ELSE "Transferring",
                            ![s].diff = Diff(tasks[s].arg),
                            ![s].pos = Position(Src(tasks[s].arg))]
  /\ ev' = Event("replicate", 0, 0, "ok")
  /\ UNCHANGED <<dbs, ckpt, isOffline, searchTitle, likesDocsByGame, ui, now>>
ReplDiff(s) ==
  /\ IsRun(tasks[s]) /\ tasks[s].pc = "Diffing"
  /\ tasks' = [tasks EXCEPT ![s].pc = "Transferring", ![s].diff = Diff(tasks[s].arg),
                            ![s].pos = Position(Src(tasks[s].arg))]
  /\ ev' = Event("replicate", 0, 0, "ok")
  /\ UNCHANGED <<dbs, ckpt, isOffline, searchTitle, likesDocsByGame, ui, now>>

\* Transferring: one batch (one document revision) of the diffed set is
\* fetched; Transferring -> Resolving when the whole set has been fetched
ReplTransfer(s) ==
  /\ IsRun(tasks[s]) /\ tasks[s].pc = "Transferring"
  /\ LET t == tasks[s] IN
     IF t.diff = {} THEN tasks' = [tasks EXCEPT ![s].pc = "Resolving"]
     ELSE LET x == CHOOSE y \in t.diff : TRUE
              rest == t.diff \ {x} IN
          tasks' = [tasks EXCEPT ![s].pc = IF rest = {} THEN "Resolving" ELSE "Transferring",
                                 ![s].diff = rest, ![s].batch = t.batch \cup {x}]
  /\ ev' = Event("replicate", 0, 0, "ok")
  /\ UNCHANGED <<dbs, ckpt, isOffline, searchTitle, likesDocsByGame, ui, now>>

\* Resolving: each fetched revision is committed through the resolver, in
\* any order; Resolving -> Checkpointing when all are committed
ReplResolve(s) ==
  /\ IsRun(tasks[s]) /\ tasks[s].pc = "Resolving"
  /\ LET t == tasks[s] IN
     IF t.batch = {}
     THEN /\ tasks' = [tasks EXCEPT ![s].pc = "Checkpointing"]
          /\ UNCHANGED dbs
     ELSE \E x \in t.batch :
            /\ WriteDst(t.arg, CommitAll(Dst(t.arg), {x}))
            /\ tasks' = [tasks EXCEPT ![s].pc = IF t.batch = {x} THEN "Checkpointing" ELSE "Resolving",
                                      ![s].batch = t.batch \ {x}]
  /\ ev' = Event("replicate", 0, 0, "ok")
  /\ UNCHANGED <<ckpt, isOffline, searchTitle, likesDocsByGame, ui, now>>

\* what a handler does when one of its replications has completed
NextRunSkipPull(t) ==
  IF t.op = "sync" /\ t.arg = 1 THEN [t EXCEPT !.pc = "Diffing", !.arg = 3]
  ELSE IF t.op = "sync" /\ t.arg < 4 THEN [t EXCEPT !.pc = "Diffing", !.arg = t.arg + 1]
  ELSE IF t.op = "startupComments" THEN NoTask
  ELSE [t EXCEPT !.pc = "find"]
NextRunFetchEarly(t) ==
  IF t.op = "sync" /\ t.arg < 2 THEN [t EXCEPT !.pc = "Diffing", !.arg = t.arg + 1]
  ELSE IF t.op = "startupComments" THEN NoTask
  ELSE [t EXCEPT !.pc = "find"]
NextRun(t) ==
  IF t.op = "sync" /\ t.arg < 4 THEN [t EXCEPT !.pc = "Diffing", !.arg = t.arg + 1]
  ELSE IF t.op = "startupComments" THEN NoTask
  ELSE [t EXCEPT !.pc = "find"]

\* Checkpointing -> Idle: the position is persisted and the run completes
ReplCheckpointNow(s) ==
  /\ IsRun(tasks[s]) /\ tasks[s].pc = "Checkpointing"
  /\ ckpt' = [ckpt EXCEPT ![Channel(tasks[s].arg)] = Position(Src(tasks[s].arg))]
  /\ tasks' = [tasks EXCEPT ![s] = [NextRun(tasks[s]) EXCEPT !.pos = 0]]
  /\ ev' = Event("replicate", 0, 0, "ok")
  /\ UNCHANGED <<dbs, isOffline, searchTitle, likesDocsByGame, ui, now>>
ReplCheckpoint(s) ==
  /\ IsRun(tasks[s]) /\ tasks[s].pc = "Checkpointing"
  /\ ckpt' = [ckpt EXCEPT ![Channel(tasks[s].arg)] = tasks[s].pos]
  /\ tasks' = [tasks EXCEPT ![s] = [NextRun(tasks[s]) EXCEPT !.pos = 0]]
  /\ ev' = Event("replicate", 0, 0, "ok")
  /\ UNCHANGED <<dbs, isOffline, searchTitle, likesDocsByGame, ui, now>>

\* Failed: a transport error in any phase rejects the awaited replication;
\* the handler has no catch, so it ends there and no checkpoint is written
\* who learns of a failed replication: a handler that awaits it gets the
\* rejection; the startup pulls are not awaited and have no error listener
Awaited(t) == t.op = "sync"
Outcome(t) == IF Awaited(t) THEN "rejected" ELSE "unobserved"

ReplFailAdvance(s) ==
  /\ IsRun(tasks[s]) /\ tasks[s].pc \in {"Diffing", "Transferring", "Resolving", "Checkpointing"}
  /\ tasks' = Finish(s)
  /\ ckpt' = [ckpt EXCEPT ![Channel(tasks[s].arg)] = Position(Src(tasks[s].arg))]
  /\ ev' = [Event("replicate", 0, 0, "TransportFailure") EXCEPT !.by = Outcome(tasks[s])]
  /\ UNCHANGED <<dbs, isOffline, searchTitle, likesDocsByGame, ui, now>>
ReplFail(s) ==
  /\ IsRun(tasks[s]) /\ tasks[s].pc \in {"Diffing", "Transferring", "Resolving", "Checkpointing"}
  /\ tasks' = Finish(s)
  /\ ev' = [Event("replicate", 0, 0, "TransportFailure") EXCEPT !.by = Outcome(tasks[s])]
  /\ UNCHANGED <<dbs, ckpt, isOffline, searchTitle, likesDocsByGame, ui, now>>

\* -------------------------------------------------------------- manual sync
\* the four replications are started unless a store is missing or the
\* offline flag is set
SyncStartsAlways == TRUE
SyncStarts == ~isOffline

watchDistantChanges ==
  /\ SyncStarts => HasFree
  /\ tasks' = IF SyncStarts
              THEN Start([Task("sync", "Diffing") EXCEPT !.arg = 1, !.clean = TRUE])
              ELSE tasks
  /\ ev' = Event("watchDistantChanges", 0, 0, IF SyncStarts THEN "started" ELSE "offline")
  /\ UNCHANGED <<dbs, ckpt, isOffline, searchTitle, likesDocsByGame, ui, now>>

\* the offline checkbox (v-model="isOffline")
ToggleOffline ==
  /\ isOffline' = ~isOffline
  /\ ev' = Event("toggleOffline", 0, 0, "ok")
  /\ UNCHANGED <<dbs, ckpt, searchTitle, likesDocsByGame, ui, tasks, now>>

\* ------------------------------------------------------------ remote peers
\* another replica pushes a revision it wrote: an edit or a delete of a
\* revision it had replicated
PeerWriteGame(id, parent, t, deleted) ==
  /\ parent \in History(remoteGamesDB[id])
  /\ parent.gen < MaxGen
  /\ Cardinality(History(remoteGamesDB[id])) < MaxRevs
  /\ \A l \in Leaves(remoteGamesDB[id]) : l.rev = parent => ~l.deleted
  /\ parent.hash % Base # 0
  /\ LET body == IF deleted THEN NoBody ELSE GameBody(t)
         in == [rev |-> NewRev(parent, body, deleted), body |-> body, deleted |-> deleted] IN
     /\ ~Known(remoteGamesDB[id], in.rev)
     /\ remoteGamesDB' = [remoteGamesDB EXCEPT ![id] = Commit(@, in)]
     /\ ev' = Event("peer.write", 0, 0, "ok")
  /\ tasks' = Touch(tasks, TRUE)
  /\ UNCHANGED <<gamesDB, commentsDB, remoteCommentsDB, ckpt, isOffline, searchTitle, likesDocsByGame, ui, now>>

\* another replica creates game id and pushes it: an id is a timestamp and
\* two devices can draw the same one
PeerCreateGame(id, t) ==
  /\ ~Exists(remoteGamesDB[id])
  /\ LET in == [rev |-> NewRev(NoRev, GameBody(t), FALSE), body |-> GameBody(t),
                deleted |-> FALSE] IN
     /\ remoteGamesDB' = [remoteGamesDB EXCEPT ![id] = Commit(@, in)]
     /\ ev' = Event("peer.write", 0, 0, "ok")
  /\ tasks' = Touch(tasks, TRUE)
  /\ UNCHANGED <<gamesDB, commentsDB, remoteCommentsDB, ckpt, isOffline, searchTitle, likesDocsByGame, ui, now>>

\* -------------------------------------------------------------- initial
EmptyGames == [id \in DocIds |-> NoDoc]
EmptyComments == [id \in CommentIds |-> NoDoc]
Channels == {"games.push", "games.pull", "comments.push", "comments.pull"}

\* a fresh installation whose startup replication found the remote empty
InitQuiet ==
  /\ gamesDB = EmptyGames /\ remoteGamesDB = EmptyGames
  /\ commentsDB = EmptyComments /\ remoteCommentsDB = EmptyComments
  /\ ckpt = [c \in Channels |-> 0]
  /\ isOffline = FALSE
  /\ gamesData = <<>> /\ hasMoreGames = TRUE
  /\ commentsByGame = [g \in DocIds |-> <<>>]
  /\ likesCount = [g \in DocIds |-> 0]
  /\ searchTitle = <<>>
  /\ likesDocsByGame = [g \in DOMAIN likesCount |-> <<>>]
  /\ gameImages = [g \in DocIds |-> FALSE]
  /\ tasks = [s \in Slots |-> NoTask]
  /\ now = 1
  /\ ev = Event("init", 0, 0, "ok")

\* ---------------------------------------------- local writes to one store
NextStore ==
  \/ \E t \in Titles : AddGame(t)
  \/ \E id \in Times, t \in Titles : UpdateGame(id, t)
  \/ \E s \in Slots : UpdateGamePut(s)
  \/ \E id \in Times : DeleteGame(id)
  \/ \E s \in Slots : DeleteGameRemove(s)
  \/ \E s \in Slots : DeleteGameFind(s)
  \/ \E s \in Slots : DeleteGameCascade(s)
  \/ \E g \in Times : AddComment(g)
  \/ \E s \in Slots : AddCommentUnshift(s)
  \/ \E g \in Times, c \in CommentIds : DeleteComment(c, g)
  \/ \E s \in Slots : DeleteCommentRemove(s)
  \/ \E s \in Slots : DeleteCommentFetch(s)
  \/ \E s \in Slots : FetchDataFind(s)
  \/ \E s \in Slots : FetchPerGame(s)

SpecStore == InitQuiet /\ [][NextStore]_vars

\* ------------------------- one game edited here and elsewhere, and synced
\* One handler runs at a time; the peers write to the remote at any moment,
\* also in the middle of a replication.
NextRepl ==
  \/ Quiescent /\ \E t \in Titles : AddGame(t)
  \/ Quiescent /\ \E id \in Times, t \in Titles : UpdateGame(id, t)
  \/ \E s \in Slots : UpdateGamePut(s)
  \/ Quiescent /\ \E id \in Times : DeleteGame(id)
  \/ \E s \in Slots : DeleteGameRemove(s)
  \/ \E s \in Slots : DeleteGameFind(s)
  \/ \E s \in Slots : FetchDataFind(s)
  \/ \E s \in Slots : FetchPerGame(s)
  \/ \E t \in Titles, d \in BOOLEAN :
        \E p \in History(remoteGamesDB[1]) : PeerWriteGame(1, p, t, d)
  \/ ToggleOffline
  \/ Quiescent /\ watchDistantChanges
  \/ \E s \in Slots : ReplDiff(s)
  \/ \E s \in Slots : ReplTransfer(s)
  \/ \E s \in Slots : ReplResolve(s)
  \/ \E s \in Slots : ReplCheckpoint(s)
  \/ \E s \in Slots : ReplFail(s)

SpecRepl == InitQuiet /\ [][NextRepl]_vars

\* ------------------- one id drawn on two devices, edited on both, and synced
\* No failure and no offline switch: every sync runs to its end.
NextResolve ==
  \/ Quiescent /\ \E t \in Titles : AddGame(t)
  \/ Quiescent /\ \E id \in Times, t \in Titles : UpdateGame(id, t)
  \/ \E s \in Slots : UpdateGamePut(s)
  \/ Quiescent /\ \E id \in Times : DeleteGame(id)
  \/ \E s \in Slots : DeleteGameRemove(s)
  \/ \E s \in Slots : DeleteGameFind(s)
  \/ \E s \in Slots : FetchDataFind(s)
  \/ \E s \in Slots : FetchPerGame(s)
  \/ \E t \in Titles : PeerCreateGame(1, t)
  \/ \E t \in Titles, d \in BOOLEAN :
        \E p \in History(remoteGamesDB[1]) : PeerWriteGame(1, p, t, d)
  \/ Quiescent /\ watchDistantChanges
  \/ \E s \in Slots : ReplDiff(s)
  \/ \E s \in Slots : ReplTransfer(s)
  \/ \E s \in Slots : ReplResolve(s)
  \/ \E s \in Slots : ReplCheckpoint(s)

SpecResolve == InitQuiet /\ [][NextResolve]_vars



\* ------------------------ syncs that fail or run while the flag is switched
\* Games are created here and on another device; a sync may fail in any
\* phase, and the offline checkbox may be switched at any moment.
NextFail ==
  \/ Quiescent /\ \E t \in Titles : AddGame(t)
  \/ Quiescent /\ \E id \in Times, t \in Titles : UpdateGame(id, t)
  \/ \E s \in Slots : UpdateGamePut(s)
  \/ \E s \in Slots : FetchDataFind(s)
  \/ \E s \in Slots : FetchPerGame(s)
  \/ \E t \in Titles : PeerCreateGame(1, t)
  \/ ToggleOffline
  \/ Quiescent /\ watchDistantChanges
  \/ \E s \in Slots : ReplDiff(s)
  \/ \E s \in Slots : ReplTransfer(s)
  \/ \E s \in Slots : ReplResolve(s)
  \/ \E s \in Slots : ReplCheckpoint(s)
  \/ \E s \in Slots : ReplFail(s)

SpecFail == InitQuiet /\ [][NextFail]_vars

\* ------------------------------- local writes while a sync is in progress
NoSync == \A s \in Slots : tasks[s].op # "sync"

NoHandler == \A s \in Slots : tasks[s].op \in {"none", "sync"}

\* One handler at a time runs while a sync is transferring; one sync at a
\* time; another replica edits the game on the remote.
NextConc ==
  \/ NoHandler /\ \E t \in Titles : AddGame(t)
  \/ NoHandler /\ \E id \in Times, t \in Titles : UpdateGame(id, t)
  \/ \E s \in Slots : UpdateGamePut(s)
  \/ NoHandler /\ \E id \in Times : DeleteGame(id)
  \/ \E s \in Slots : DeleteGameRemove(s)
  \/ \E s \in Slots : DeleteGameFind(s)
  \/ \E s \in Slots : FetchDataFind(s)
  \/ \E s \in Slots : FetchPerGame(s)
  \/ \E p \in History(remoteGamesDB[1]) : PeerWriteGame(1, p, 2, FALSE)
  \/ NoSync /\ watchDistantChanges
  \/ \E s \in Slots : ReplDiff(s)
  \/ \E s \in Slots : ReplTransfer(s)
  \/ \E s \in Slots : ReplResolve(s)
  \/ \E s \in Slots : ReplCheckpoint(s)

SpecConc == InitQuiet /\ [][NextConc]_vars

\* ------------------------------------------- creations and the clock
\* Games, comments and likes are created while the millisecond clock
\* advances, or does not, between two creations.
NextIds ==
  \/ Tick
  \/ \E t \in Titles : AddGame(t)
  \/ \E s \in Slots : FetchDataFind(s)
  \/ \E s \in Slots : FetchPerGame(s)
  \/ \E g \in Times : AddComment(g)
  \/ \E s \in Slots : AddCommentUnshift(s)
  \/ \E g \in Times : ToggleLike(g)
  \/ \E s \in Slots : ToggleLikeIncrement(s)

SpecIds == InitQuiet /\ [][NextIds]_vars

\* --------------- startup: the two pulls of initDatabase, then the handlers
\* a document as another replica created it
RootDoc(body) ==
  [cur |-> [rev |-> NewRev(NoRev, body, FALSE), body |-> body, deleted |-> FALSE],
   conflicts |-> {}]

\* initDatabase has just been called on a fresh installation: both pulls are
\* started and neither is awaited. The remote holds game 1 and some comments
\* and likes of it, pushed by other replicas.
InitStartup ==
  /\ gamesDB = EmptyGames /\ commentsDB = EmptyComments
  /\ remoteGamesDB = [id \in DocIds |-> IF id = 1 THEN RootDoc(GameBody(1)) ELSE NoDoc]
  /\ \E R \in SUBSET CommentIds :
       remoteCommentsDB =
         [id \in CommentIds |->
            IF id \in R
            THEN RootDoc(IF id[1] = "like" THEN LikeBody(1) ELSE CommentBody(1))
            ELSE NoDoc]
  /\ ckpt = [c \in Channels |-> 0]
  /\ isOffline = FALSE
  /\ gamesData = <<>> /\ hasMoreGames = TRUE
  /\ commentsByGame = [g \in DocIds |-> <<>>]
  /\ likesCount = [g \in DocIds |-> 0]
  /\ searchTitle = <<>>
  /\ likesDocsByGame = [g \in DOMAIN likesCount |-> <<>>]
  /\ gameImages = [g \in DocIds |-> FALSE]
  /\ tasks = [s \in Slots |->
                IF s = 1 THEN [Task("startupGames", "Diffing") EXCEPT !.arg = 2]
                ELSE IF s = 2 THEN [Task("startupComments", "Diffing") EXCEPT !.arg = 4]
                ELSE NoTask]
  /\ now = 1
  /\ ev = Event("init", 0, 0, "ok")

NextLikes ==
  \/ Tick
  \/ \E s \in Slots : ReplDiff(s)
  \/ \E s \in Slots : ReplTransfer(s)
  \/ \E s \in Slots : ReplResolve(s)
  \/ \E s \in Slots : ReplCheckpoint(s)
  \/ \E s \in Slots : FetchDataFind(s)
  \/ \E s \in Slots : FetchPerGame(s)
  \/ \E g \in Times : ToggleLike(g)
  \/ \E s \in Slots : ToggleLikeIncrement(s)
  \/ \E g \in Times : AddComment(g)
  \/ \E s \in Slots : AddCommentUnshift(s)
  \/ \E id \in Times : DeleteGame(id)
  \/ \E s \in Slots : DeleteGameRemove(s)
  \/ \E s \in Slots : DeleteGameFind(s)
  \/ \E s \in Slots : DeleteGameCascade(s)
  \/ \E s \in Slots : ReplFail(s)

SpecLikes == InitStartup /\ [][NextLikes]_vars

\* the comment handlers from the startup: the two startup pulls, fetchData,
\* addComment and deleteComment
NextComments ==
  \/ Tick
  \/ \E s \in Slots : ReplDiff(s)
  \/ \E s \in Slots : ReplTransfer(s)
  \/ \E s \in Slots : ReplResolve(s)
  \/ \E s \in Slots : ReplCheckpoint(s)
  \/ \E s \in Slots : FetchDataFind(s)
  \/ \E s \in Slots : FetchPerGame(s)
  \/ \E g \in Times : AddComment(g)
  \/ \E s \in Slots : AddCommentUnshift(s)
  \/ \E g \in Times, c \in CommentIds : DeleteComment(c, g)
  \/ \E s \in Slots : DeleteCommentRemove(s)
  \/ \E s \in Slots : DeleteCommentFetch(s)

SpecComments == InitStartup /\ [][NextComments]_vars

\* ------------------------------------------------- syncs with no new write
\* Writes are made, on both sides, until a sync has recorded a checkpoint;
\* from then on the stores are written by the syncs alone.
Unsynced == \A c \in Channels : ckpt[c] = 0

NextIdem ==
  \/ Unsynced /\ Quiescent /\ \E t \in Titles : AddGame(t)
  \/ Unsynced /\ Quiescent /\ \E id \in Times, t \in Titles : UpdateGame(id, t)
  \/ \E s \in Slots : UpdateGamePut(s)
  \/ Unsynced /\ Quiescent /\ \E id \in Times : DeleteGame(id)
  \/ \E s \in Slots : DeleteGameRemove(s)
  \/ \E s \in Slots : DeleteGameFind(s)
  \/ \E s \in Slots : FetchDataFind(s)
  \/ \E s \in Slots : FetchPerGame(s)
  \/ Unsynced /\ Quiescent /\ \E t \in Titles : PeerCreateGame(1, t)
  \/ Unsynced /\ Quiescent /\ \E t \in Titles, d \in BOOLEAN :
        \E p \in History(remoteGamesDB[1]) : PeerWriteGame(1, p, t, d)
  \/ Quiescent /\ watchDistantChanges
  \/ \E s \in Slots : ReplDiff(s)
  \/ \E s \in Slots : ReplTransfer(s)
  \/ \E s \in Slots : ReplResolve(s)
  \/ \E s \in Slots : ReplCheckpoint(s)

SpecIdem == InitQuiet /\ [][NextIdem]_vars

\* ------------------------------------------------------ a later startup
\* initDatabase on a device that may hold games of an earlier session: the
\* two startup pulls are started; the remote may hold the same games, others
\* or none, and may be unreachable.
Stored == {NoDoc, RootDoc(GameBody(1)), RootDoc(GameBody(2))}
InitRestart ==
  /\ \E l \in Stored, r \in Stored, r2 \in Stored :
       /\ gamesDB = [EmptyGames EXCEPT ![1] = l]
       /\ remoteGamesDB = [EmptyGames EXCEPT ![1] = r, ![MaxClock] = r2]
  /\ commentsDB = EmptyComments /\ remoteCommentsDB = EmptyComments
  /\ ckpt = [c \in Channels |-> 0]
  /\ isOffline = FALSE
  /\ gamesData = <<>> /\ hasMoreGames = TRUE
  /\ commentsByGame = [g \in DocIds |-> <<>>]
  /\ likesCount = [g \in DocIds |-> 0]
  /\ searchTitle = <<>>
  /\ likesDocsByGame = [g \in DOMAIN likesCount |-> <<>>]
  /\ gameImages = [g \in DocIds |-> FALSE]
  /\ tasks = [s \in Slots |->
                IF s = 1 THEN [Task("startupGames", "Diffing") EXCEPT !.arg = 2]
                ELSE IF s = 2 THEN [Task("startupComments", "Diffing") EXCEPT !.arg = 4]
                ELSE NoTask]
  /\ now = 1
  /\ ev = Event("init", 0, 0, "ok")

NextRestart ==
  \/ \E s \in Slots : ReplDiff(s)
  \/ \E s \in Slots : ReplTransfer(s)
  \/ \E s \in Slots : ReplResolve(s)
  \/ \E s \in Slots : ReplCheckpoint(s)
  \/ \E s \in Slots : ReplFail(s)
  \/ \E s \in Slots : FetchDataFind(s)
  \/ \E s \in Slots : FetchPerGame(s)

SpecRestart == InitRestart /\ [][NextRestart]_vars

\* ------------------------------------------------------ the full listing
\* The games store after the startup pull, when fetchData is called: under
\* the ids 0 and 1 no document, a game, or a document without a game body;
\* id 0 is a reserved id ("_design/..."), the others are game_<ms>.
ListIds == {0} \cup DocIds
Pulled == {NoDoc, RootDoc(GameBody(1)), RootDoc(OtherBody)}
InitList ==
  /\ \E d0 \in Pulled, d1 \in Pulled :
       gamesDB = [id \in ListIds |-> IF id = 0 THEN d0 ELSE IF id = 1 THEN d1 ELSE NoDoc]
  /\ remoteGamesDB = gamesDB
  /\ commentsDB = EmptyComments /\ remoteCommentsDB = EmptyComments
  /\ ckpt = [c \in Channels |-> 0]
  /\ isOffline = FALSE
  /\ gamesData = <<>> /\ hasMoreGames = TRUE
  /\ commentsByGame = [g \in DocIds |-> <<>>]
  /\ likesCount = [g \in DocIds |-> 0]
  /\ searchTitle = <<>>
  /\ likesDocsByGame = [g \in DOMAIN likesCount |-> <<>>]
  /\ gameImages = [g \in DocIds |-> FALSE]
  /\ tasks = [s \in Slots |-> IF s = 1 THEN Task("startupGames", "find") ELSE NoTask]
  /\ now = 1
  /\ ev = Event("init", 0, 0, "ok")

NextList ==
  \/ Tick
  \/ \E t \in Titles : FewRunning /\ AddGame(t)
  \/ \E id \in Times : FewRunning /\ DeleteGame(id)
  \/ \E s \in Slots : DeleteGameRemove(s)
  \/ \E s \in Slots : DeleteGameFind(s)
  \/ \E s \in Slots : FetchDataFind(s)
  \/ \E s \in Slots : FetchPerGame(s)

SpecList == InitList /\ [][NextList]_vars

\* ------------------------------------- the paginated listing (10 at a time)
\* limit and skip of find, over a sequence
Page(seq, skip, limit) ==
  IF skip >= Len(seq) THEN <<>>
  ELSE SubSeq(seq, skip + 1, IF skip + limit <= Len(seq) THEN skip + limit ELSE Len(seq))

\* loadMoreGames: fetchData(true); skip is read before the await
loadMoreGames ==
  /\ Quiescent /\ hasMoreGames
  /\ tasks' = Start([Task("loadMoreGames", "findPage") EXCEPT !.arg = Len(gamesData), !.g = 1])
  /\ ev' = Event("loadMoreGames", 0, Len(gamesData), "started")
  /\ UNCHANGED <<dbs, ckpt, isOffline, searchTitle, likesDocsByGame, ui, now>>

\* fetchData(append): the page is found, filtered, appended or assigned,
\* and hasMoreGames is set from the length of the filtered page
FetchPageFind(s) ==
  /\ tasks[s].pc = "findPage"
  /\ LET t == tasks[s]
         append == t.g = 1
         newGames == OnlyGames(gamesDB, Page(AllDocs(gamesDB), t.arg, gamesPerPage)) IN
     /\ gamesData' = IF append THEN gamesData \o newGames ELSE newGames
     /\ hasMoreGames' = (Len(newGames) = gamesPerPage)
     /\ tasks' = IF newGames = <<>> THEN Finish(s)
                 ELSE [tasks EXCEPT ![s].pc = "perGamePage", ![s].todo = newGames]
     /\ ev' = FetchEvent(t.op, 0, IF newGames = <<>> THEN "done" ELSE "listed")
  /\ UNCHANGED <<dbs, ckpt, isOffline, searchTitle, likesDocsByGame, commentsByGame, likesCount, gameImages, now>>

\* The paginated variant shows the latest comment of a game only:
\* lastCommentByGame[g] is commentsByGame[g], empty (null) or of one comment.
\* fetchLastCommentForGame: find sorted by createdAt descending, limit 1
LastComment(db, g) ==
  LET all == CommentList(db, g) IN IF all = <<>> THEN <<>> ELSE <<Head(all)>>

\* the loop over the new games: fetchLastCommentForGame, fetchLikesForGame
FetchPagePerGame(s) ==
  /\ tasks[s].pc = "perGamePage"
  /\ LET g == Head(tasks[s].todo)
         rest == Tail(tasks[s].todo) IN
     /\ commentsByGame' = [commentsByGame EXCEPT ![g] = LastComment(commentsDB, g)]
     /\ likesCount' = [likesCount EXCEPT ![g] = LikesOf(commentsDB, g)]
     /\ gameImages' = LoadGameImage(gamesDB, g)
     /\ tasks' = IF rest = <<>> THEN Finish(s) ELSE [tasks EXCEPT ![s].todo = rest]
     /\ ev' = FetchEvent(tasks[s].op, g, IF rest = <<>> THEN "done" ELSE "fetched")
  /\ UNCHANGED <<dbs, ckpt, isOffline, searchTitle, likesDocsByGame, gamesData, hasMoreGames, now>>

\* fetchData() of the paginated variant: the first page replaces gamesData
FetchFirstPage(s) ==
  /\ tasks[s].op # "none" /\ tasks[s].pc = "find"
  /\ LET newGames == OnlyGames(gamesDB, Page(AllDocs(gamesDB), 0, gamesPerPage)) IN
     /\ gamesData' = newGames
     /\ hasMoreGames' = (Len(newGames) = gamesPerPage)
     /\ tasks' = IF newGames = <<>> THEN Finish(s)
                 ELSE [tasks EXCEPT ![s].pc = "perGamePage", ![s].todo = newGames]
     /\ ev' = FetchEvent(tasks[s].op, 0, IF newGames = <<>> THEN "done" ELSE "listed")
  /\ UNCHANGED <<dbs, ckpt, isOffline, searchTitle, likesDocsByGame, commentsByGame, likesCount, gameImages, now>>

\* addComment of the paginated variant, after the put:
\* lastCommentByGame[gameId] = newComment
AddCommentLast(s) ==
  /\ At(s, "addComment", "unshift")
  /\ commentsByGame' = [commentsByGame EXCEPT ![tasks[s].g] = <<<<"comment", tasks[s].arg>>>>]
  /\ tasks' = Finish(s)
  /\ ev' = Event("addComment.last", <<"comment", tasks[s].arg>>, tasks[s].g, "done")
  /\ UNCHANGED <<dbs, ckpt, isOffline, searchTitle, likesDocsByGame, gamesData, hasMoreGames, likesCount, gameImages, now>>

\* deleteComment of the paginated variant, after the remove:
\* fetchLastCommentForGame(gameId)
DeleteCommentFetchLast(s) ==
  /\ At(s, "deleteComment", "fetchComments")
  /\ commentsByGame' = [commentsByGame EXCEPT ![tasks[s].g] = LastComment(commentsDB, tasks[s].g)]
  /\ tasks' = Finish(s)
  /\ ev' = Event("deleteComment.fetchLast", 0, tasks[s].g, "done")
  /\ UNCHANGED <<dbs, ckpt, isOffline, searchTitle, likesDocsByGame, gamesData, hasMoreGames, likesCount, gameImages, now>>

\* the paginated variant from its startup: the two startup pulls, the
\* listing, and the comment handlers
NextLast ==
  \/ Tick
  \/ \E s \in Slots : ReplDiff(s)
  \/ \E s \in Slots : ReplTransfer(s)
  \/ \E s \in Slots : ReplResolve(s)
  \/ \E s \in Slots : ReplCheckpoint(s)
  \/ \E s \in Slots : FetchFirstPage(s)
  \/ \E s \in Slots : FetchPagePerGame(s)
  \/ \E g \in Times : AddComment(g)
  \/ \E s \in Slots : AddCommentLast(s)
  \/ \E g \in Times, c \in CommentIds : DeleteComment(c, g)
  \/ \E s \in Slots : DeleteCommentRemove(s)
  \/ \E s \in Slots : DeleteCommentFetchLast(s)

SpecLast == InitStartup /\ [][NextLast]_vars

\* the startup pull has completed with n games and fetchData() is called
InitPage ==
  /\ \E n \in 0..MaxDocs :
       gamesDB = [id \in PageIds |-> IF id <= n THEN RootDoc(GameBody(1)) ELSE NoDoc]
  /\ remoteGamesDB = gamesDB
  /\ commentsDB = EmptyComments /\ remoteCommentsDB = EmptyComments
  /\ ckpt = [c \in Channels |-> 0]
  /\ isOffline = FALSE
  /\ gamesData = <<>> /\ hasMoreGames = TRUE
  /\ commentsByGame = [g \in PageIds |-> <<>>]
  /\ likesCount = [g \in PageIds |-> 0]
  /\ searchTitle = <<>>
  /\ likesDocsByGame = [g \in DOMAIN likesCount |-> <<>>]
  /\ gameImages = [g \in PageIds |-> FALSE]
  /\ tasks = [s \in Slots |-> IF s = 1 THEN Task("fetchData", "findPage") ELSE NoTask]
  /\ now = 1
  /\ ev = Event("init", 0, 0, "ok")

\* the same, when document k of the store (if any) has no game body
InitMixed ==
  /\ \E n \in 0..MaxDocs : \E k \in 0..n :
       gamesDB = [id \in PageIds |-> IF id > n THEN NoDoc
                                     ELSE IF id = k THEN RootDoc(OtherBody)
                                     ELSE RootDoc(GameBody(1))]
  /\ remoteGamesDB = gamesDB
  /\ commentsDB = EmptyComments /\ remoteCommentsDB = EmptyComments
  /\ ckpt = [c \in Channels |-> 0]
  /\ isOffline = FALSE
  /\ gamesData = <<>> /\ hasMoreGames = TRUE
  /\ commentsByGame = [g \in PageIds |-> <<>>]
  /\ likesCount = [g \in PageIds |-> 0]
  /\ searchTitle = <<>>
  /\ likesDocsByGame = [g \in DOMAIN likesCount |-> <<>>]
  /\ gameImages = [g \in PageIds |-> FALSE]
  /\ tasks = [s \in Slots |-> IF s = 1 THEN Task("fetchData", "findPage") ELSE NoTask]
  /\ now = 1
  /\ ev = Event("init", 0, 0, "ok")

NextPage ==
  \/ loadMoreGames
  \/ \E s \in Slots : FetchPageFind(s)
  \/ \E s \in Slots : FetchPagePerGame(s)

SpecPage == InitPage /\ [][NextPage]_vars
SpecMixed == InitMixed /\ [][NextPage]_vars

\* -------------------------------------------------- images and blank forms
\* The form values: a title, or 0 for a form whose required fields are blank.
Forms == Titles \cup {0}

\* Game 1 was pulled from the remote store, with or without an image, and is
\* listed; the clock has moved on since it was created.
ImageDoc(i) ==
  [cur |-> [rev |-> NewRev(NoRev, [GameBody(1) EXCEPT !.image = i], FALSE),
            body |-> [GameBody(1) EXCEPT !.image = i], deleted |-> FALSE],
   conflicts |-> {}]
InitImages ==
  \E i \in {0, 1} :
    /\ gamesDB = [EmptyGames EXCEPT ![1] = ImageDoc(i)]
    /\ remoteGamesDB = gamesDB
    /\ commentsDB = EmptyComments /\ remoteCommentsDB = EmptyComments
    /\ ckpt = [c \in Channels |-> 0]
    /\ isOffline = FALSE
    /\ gamesData = <<1>> /\ hasMoreGames = TRUE
    /\ commentsByGame = [g \in DocIds |-> <<>>]
    /\ likesCount = [g \in DocIds |-> 0]
    /\ searchTitle = <<>>
    /\ likesDocsByGame = [g \in DOMAIN likesCount |-> <<>>]
    /\ gameImages = [g \in DocIds |-> g = 1 /\ i = 1]
    /\ tasks = [s \in Slots |-> NoTask]
    /\ now = 2
    /\ ev = Event("init", 0, 0, "ok")

NextImages ==
  \/ FewRunning /\ AddGameImage(1)
  \/ \E id \in Times, t \in Titles : FewRunning /\ UpdateGame(id, t)
  \/ \E id \in Times : FewRunning /\ UpdateGameImage(id, 2)
  \/ \E s \in Slots : UpdateGamePut(s)
  \/ \E s \in Slots : PutImage(s)
  \/ \E id \in Times : FewRunning /\ DeleteGameImage(id)
  \/ \E s \in Slots : RemoveImage(s)
  \/ \E s \in Slots : FetchDataFind(s)
  \/ \E s \in Slots : FetchPerGame(s)

SpecImages == InitImages /\ [][NextImages]_vars

\* addGame and updateGame called with any form value, blank ones included
NextForms ==
  \/ \E t \in Forms : AddGame(t)
  \/ \E id \in Times, t \in Forms : UpdateGame(id, t)
  \/ \E s \in Slots : UpdateGamePut(s)
  \/ \E s \in Slots : FetchDataFind(s)
  \/ \E s \in Slots : FetchPerGame(s)

SpecForms == InitQuiet /\ [][NextForms]_vars

\* ------------------------------------------------------------------ search
\* The characters typed, the search texts, and the text of each title.
Chars == {"a", "A", "b", ".", " "}
Texts == UNION {[1..n -> Chars] : n \in 0..MaxText}
TitleText(t) == IF t = 1 THEN <<"A", "b">> ELSE <<"b", "a">>

\* !searchTitle.value.trim()
IsBlank(text) == \A i \in 1..Len(text) : text[i] = " "
\* the 'i' flag: letters are compared without case
Lower(ch) == IF ch = "A" THEN "a" ELSE ch
\* new RegExp(text, 'i') tested on a title: the text is a pattern, in which
\* "." stands for any character, found anywhere in the title
RegexTest(pat, str) ==
  \E i \in 0..(Len(str) - Len(pat)) :
    \A j \in 1..Len(pat) : pat[j] = "." \/ Lower(pat[j]) = Lower(str[i + j])

\* the toggling variant: two games are listed, no like is stored, and the
\* like buttons are clicked while the clock advances
InitToggle ==
  /\ gamesDB = [id \in DocIds |-> IF id \in Titles THEN RootDoc(GameBody(id)) ELSE NoDoc]
  /\ remoteGamesDB = gamesDB
  /\ commentsDB = EmptyComments /\ remoteCommentsDB = EmptyComments
  /\ ckpt = [c \in Channels |-> 0]
  /\ isOffline = FALSE
  /\ gamesData = SortedSeq(LiveGames(gamesDB)) /\ hasMoreGames = TRUE
  /\ commentsByGame = [g \in DocIds |-> <<>>]
  /\ likesCount = [g \in DocIds |-> 0]
  /\ searchTitle = <<>>
  /\ likesDocsByGame = [g \in DocIds |-> <<>>]
  /\ gameImages = [g \in DocIds |-> FALSE]
  /\ tasks = [s \in Slots |-> NoTask]
  /\ now = 1
  /\ ev = Event("init", 0, 0, "ok")

NextToggle ==
  \/ Tick
  \/ \E g \in DocIds : ToggleLikeCached(g)
  \/ \E s \in Slots : ToggleLikeRemove(s)
  \/ \E s \in Slots : ToggleLikeFetch(s)

SpecToggle == InitToggle /\ [][NextToggle]_vars

\* another replica removes the image of game 1 or deletes the game, and a
\* manual sync pulls it
NextCache ==
  \/ \E p \in History(remoteGamesDB[1]), d \in BOOLEAN : PeerWriteGame(1, p, 1, d)
  \/ \E id \in Times : Quiescent /\ DeleteGameImage(id)
  \/ \E s \in Slots : RemoveImage(s)
  \/ Quiescent /\ watchDistantChanges
  \/ \E s \in Slots : ReplDiff(s)
  \/ \E s \in Slots : ReplTransfer(s)
  \/ \E s \in Slots : ReplResolve(s)
  \/ \E s \in Slots : ReplCheckpoint(s)
  \/ \E s \in Slots : FetchDataFind(s)
  \/ \E s \in Slots : FetchPerGame(s)

SpecCache == InitImages /\ [][NextCache]_vars

\* the sync button is pressed whenever it is enabled
NextButton ==
  \/ Tick
  \/ \E t \in Titles : Quiescent /\ AddGame(t)
  \/ watchDistantChanges
  \/ \E s \in Slots : ReplDiff(s)
  \/ \E s \in Slots : ReplTransfer(s)
  \/ \E s \in Slots : ReplResolve(s)
  \/ \E s \in Slots : ReplCheckpoint(s)
  \/ \E s \in Slots : FetchDataFind(s)
  \/ \E s \in Slots : FetchPerGame(s)

SpecButton == InitQuiet /\ [][NextButton]_vars

\* what find returns for a search text
Found(db, text) ==
  {id \in LiveGames(db) : RegexTest(text, TitleText(db[id].cur.body.title))}

\* searchGames, run by every input event of the search field, whose v-model
\* has set searchTitle: a blank text calls fetchData, any other text is
\* awaited in find
SearchGames(text) ==
  /\ HasFree
  /\ tasks' = Start(IF IsBlank(text) THEN Task("searchGames", "find")
                    ELSE [Task("searchGames", "searchFind") EXCEPT !.text = text])
  /\ searchTitle' = text
  /\ ev' = Event("searchGames", 0, 0, IF IsBlank(text) THEN "all" ELSE "find")
  /\ UNCHANGED <<dbs, ckpt, isOffline, likesDocsByGame, ui, now>>

\* ... find({'biblio.games.0.title': {$regex}}) replaces gamesData, and the
\* comments, likes and image of each game found are fetched
SearchFind(s) ==
  /\ At(s, "searchGames", "searchFind")
  /\ LET found == Found(gamesDB, tasks[s].text) IN
     /\ gamesData' = SortedSeq(found)
     /\ commentsByGame' = [g \in DOMAIN commentsByGame |->
                             IF g \in found THEN CommentList(commentsDB, g) ELSE commentsByGame[g]]
     /\ likesCount' = [g \in DOMAIN likesCount |->
                         IF g \in found THEN LikesOf(commentsDB, g) ELSE likesCount[g]]
     /\ gameImages' = [g \in DOMAIN gameImages |->
                         (g \in found /\ HasImage(gamesDB, g)) \/ gameImages[g]]
  /\ tasks' = Finish(s)
  /\ ev' = Event("searchGames.find", 0, 0, "listed")
  /\ UNCHANGED <<dbs, ckpt, isOffline, searchTitle, likesDocsByGame, hasMoreGames, now>>

NextSearch ==
  \/ Tick
  \/ \E t \in Titles : FewRunning /\ AddGame(t)
  \/ \E id \in Times : FewRunning /\ DeleteGame(id)
  \/ \E s \in Slots : DeleteGameRemove(s)
  \/ \E s \in Slots : DeleteGameFind(s)
  \/ \E text \in Texts : Quiescent /\ SearchGames(text)
  \/ \E s \in Slots : SearchFind(s)
  \/ \E s \in Slots : FetchDataFind(s)
  \/ \E s \in Slots : FetchPerGame(s)

SpecSearch == InitQuiet /\ [][NextSearch]_vars

\* a filter is set, then games are added and deleted
NextFilter ==
  \/ \E t \in Titles : Quiescent /\ AddGame(t)
  \/ \E id \in Times : Quiescent /\ DeleteGame(id)
  \/ \E s \in Slots : DeleteGameRemove(s)
  \/ \E s \in Slots : DeleteGameFind(s)
  \/ \E text \in Texts : Quiescent /\ SearchGames(text)
  \/ \E s \in Slots : SearchFind(s)
  \/ \E s \in Slots : FetchDataFind(s)
  \/ \E s \in Slots : FetchPerGame(s)

SpecFilter == InitQuiet /\ [][NextFilter]_vars

\* the text is typed into the search field of a store that holds two games,
\* both listed; every input event runs searchGames, and nothing else runs
InitTyping ==
  /\ gamesDB = [id \in DocIds |-> IF id \in Titles THEN RootDoc(GameBody(id)) ELSE NoDoc]
  /\ remoteGamesDB = gamesDB
  /\ commentsDB = EmptyComments /\ remoteCommentsDB = EmptyComments
  /\ ckpt = [c \in Channels |-> 0]
  /\ isOffline = FALSE
  /\ gamesData = SortedSeq(LiveGames(gamesDB)) /\ hasMoreGames = TRUE
  /\ commentsByGame = [g \in DocIds |-> <<>>]
  /\ likesCount = [g \in DocIds |-> 0]
  /\ searchTitle = <<>>
  /\ likesDocsByGame = [g \in DOMAIN likesCount |-> <<>>]
  /\ gameImages = [g \in DocIds |-> FALSE]
  /\ tasks = [s \in Slots |-> NoTask]
  /\ now = MaxClock
  /\ ev = Event("init", 0, 0, "ok")

NextTyping ==
  \/ \E text \in Texts : SearchGames(text)
  \/ \E s \in Slots : SearchFind(s)
  \/ \E s \in Slots : FetchDataFind(s)
  \/ \E s \in Slots : FetchPerGame(s)

SpecTyping == InitTyping /\ [][NextTyping]_vars

\* ------------------------------------------------------------- C1 and C2
\* the step is slot s resuming at the awaited call pc of handler op
Resumes(s, op, pc) == At(s, op, pc) /\ tasks'[s] # tasks[s]

\* C1: a put of updateGame whose parent revision (the one it read) is no
\* longer the document's current revision fails with Conflict and leaves the
\* store, and so the first writer's revision and body, unchanged.
C1_StalePutConflicts ==
  [][\A s \in Slots :
       (Resumes(s, "updateGame", "put")
        /\ tasks[s].read.rev # gamesDB[tasks[s].id].cur.rev)
       => (ev'.op = "updateGame.put" /\ ev'.res = "Conflict" /\ gamesDB' = gamesDB)]_vars

\* two updateGame calls read the same revision; the second put was refused
\* and the document still is the first writer's revision
C1_Witness ==
  /\ ev.op = "updateGame.put" /\ ev.res = "Conflict"
  /\ Live(gamesDB[ev.id]) /\ gamesDB[ev.id].cur.rev.gen = 2

\* the write a step made to one id of a store: "none", "delete" or "put"
GameWrite(id) ==
  IF ev'.res = "ok" /\ ev'.op \in {"addGame", "updateGame.put"} /\ ev'.id = id THEN "put"
  ELSE IF ev'.res = "ok" /\ ev'.op = "deleteGame.remove" /\ ev'.id = id THEN "delete"
  ELSE "none"
CommentWrite(id) ==
  IF ev'.res = "ok" /\ ev'.op \in {"addComment", "toggleLike"} /\ ev'.id = id THEN "put"
  ELSE IF ev'.res = "ok" /\ ev'.op \in {"deleteComment.remove", "deleteGame.cascade"}
          /\ ev'.id = id THEN "delete"
  ELSE "none"

\* C2: when every write names the current revision as its parent, get(id)
\* returns the body of the most recent non-deleting write and fails with
\* NotFound when the latest write is a delete or the id was never written:
\* nothing is readable at first, a successful put makes its body the one read,
\* a successful remove makes the id unreadable, and no other step changes what
\* get returns.
C2_GetReturnsLatestWrite ==
  /\ \A id \in DocIds : ~Get(gamesDB, id).ok
  /\ \A id \in CommentIds : ~Get(commentsDB, id).ok
  /\ [][/\ \A id \in DocIds :
             CASE GameWrite(id) = "put" ->
                    Get(gamesDB', id) = [ok |-> TRUE,
                       doc |-> [rev |-> gamesDB'[id].cur.rev, body |-> GameBody(ev'.arg),
                                deleted |-> FALSE]]
               [] GameWrite(id) = "delete" -> ~Get(gamesDB', id).ok
               [] OTHER -> Get(gamesDB', id) = Get(gamesDB, id)
        /\ \A id \in CommentIds :
             CASE CommentWrite(id) = "put" ->
                    /\ Get(commentsDB', id).ok
                    /\ Get(commentsDB', id).doc.body.gameId = ev'.arg
                    /\ Get(commentsDB', id).doc.body.kind = id[1]
               [] CommentWrite(id) = "delete" -> ~Get(commentsDB', id).ok
               [] OTHER -> Get(commentsDB', id) = Get(commentsDB, id)]_vars

\* a game was created and then deleted, and is no longer readable
C2_Witness ==
  /\ ev.op = "deleteGame.remove" /\ ev.res = "ok"
  /\ gamesDB[ev.id].cur.rev.gen = 2 /\ ~Get(gamesDB, ev.id).ok


\* ------------------------------------------------------------- C3 to C6
\* C3: when a manual sync has pushed the games to the remote and then pulled
\* them back, and no write to either games store fell in between, both
\* stores hold the same current revision and body for every id, whatever
\* was written before, divergent edits of one id on both sides included.
C3_PushThenPullConverges ==
  \A s \in Slots :
    (tasks[s].op = "sync" /\ tasks[s].arg = 3 /\ tasks[s].pc = "Diffing" /\ tasks[s].clean)
    => \A id \in DOMAIN gamesDB : gamesDB[id].cur = remoteGamesDB[id].cur

\* the sync has just synchronised a game that was edited differently on both
\* sides: both stores hold the same winner and a conflict
C3_Witness ==
  \E s \in Slots :
    /\ tasks[s].op = "sync" /\ tasks[s].arg = 3 /\ tasks[s].pc = "Diffing" /\ tasks[s].clean
    /\ gamesDB[1].conflicts # {} /\ remoteGamesDB[1].conflicts # {}
    /\ gamesDB[1].cur = remoteGamesDB[1].cur

\* C4: the resolver is deterministic and symmetric: two stores that hold the
\* same divergent revisions of an id have the same current revision, in
\* whatever order the revisions reached them, and the winner of two divergent
\* revisions does not depend on which of them is the current and which the
\* incoming one.
C4_ResolverSymmetric ==
  \A id \in DOMAIN gamesDB :
    /\ Leaves(gamesDB[id]) = Leaves(remoteGamesDB[id])
         => gamesDB[id].cur = remoteGamesDB[id].cur
    /\ \A a \in Leaves(gamesDB[id]) \cup Leaves(remoteGamesDB[id]) :
         \A b \in Leaves(gamesDB[id]) \cup Leaves(remoteGamesDB[id]) :
           Divergent(a.rev, b.rev) => Resolve(a, b).winner = Resolve(b, a).winner

\* both stores hold the same two divergent revisions of the game, of one
\* generation
C4_Witness ==
  /\ Leaves(gamesDB[1]) = Leaves(remoteGamesDB[1])
  /\ \E c \in gamesDB[1].conflicts : c.rev.gen = gamesDB[1].cur.rev.gen

\* every leaf revision of the old store is a leaf of the new one or has a
\* descendant there
Retained(old, new) ==
  \A id \in DOMAIN old : \A l \in Leaves(old[id]) :
    \E m \in Leaves(new[id]) : m = l \/ IsAncestor(l.rev, m.rev)

\* C5: no step makes the content of a written revision disappear unless a
\* descendant superseded it: every leaf revision stays a leaf or gets a
\* descendant, and every revision a replication commits can be read back
\* with get(id, includeConflicts) as the current revision or as a conflict,
\* unless the store already holds a descendant of it.
C5_LoserRetained ==
  [][/\ Retained(gamesDB, gamesDB') /\ Retained(remoteGamesDB, remoteGamesDB')
     /\ Retained(commentsDB, commentsDB') /\ Retained(remoteCommentsDB, remoteCommentsDB')
     /\ \A s \in Slots :
          (IsRun(tasks[s]) /\ tasks[s].pc = "Resolving" /\ tasks[s].arg \in {1, 2}
           /\ tasks'[s].pc \in {"Resolving", "Checkpointing"})
          => \A x \in tasks[s].batch \ tasks'[s].batch :
               LET got == GetWithConflicts(IF tasks[s].arg = 1 THEN remoteGamesDB' ELSE gamesDB', x[1])
               IN \E m \in {got.doc} \cup got.conflicts :
                    m = x[2] \/ IsAncestor(x[2].rev, m.rev)]_vars

\* a pull found the local game divergent from the remote one: one of the
\* two is now the recorded conflict of the local document
C5_Witness ==
  /\ ev.op = "replicate" /\ gamesDB[1].conflicts # {}
  /\ \A c \in gamesDB[1].conflicts : Divergent(c.rev, gamesDB[1].cur.rev)

\* a has the higher generation, or the same generation and the higher token
Beats(a, b) == a.gen > b.gen \/ (a.gen = b.gen /\ a.hash > b.hash)

\* C6: in every store the current revision of a document in conflict is the
\* one of the higher generation, and among revisions of the same generation
\* the one with the higher hash token.
C6_WinnerIsHigher ==
  \A id \in DOMAIN gamesDB :
    /\ \A c \in gamesDB[id].conflicts : Beats(gamesDB[id].cur.rev, c.rev)
    /\ \A c \in remoteGamesDB[id].conflicts : Beats(remoteGamesDB[id].cur.rev, c.rev)

\* a conflict decided by the generation, and one decided by the token
C6_Witness ==
  /\ \E c \in remoteGamesDB[1].conflicts : c.rev.gen < remoteGamesDB[1].cur.rev.gen
  /\ \E c \in gamesDB[1].conflicts : c.rev.gen = gamesDB[1].cur.rev.gen

\* -------------------------------------------------------------------- C7
\* C7: whenever no handler is running, the like counter of every listed game
\* is the number of live like documents of that game in the local comments
\* store.
C7_LikesCountMatches ==
  Quiescent => \A g \in Range(gamesData) : likesCount[g] = LikesOf(commentsDB, g)

\* -------------------------------------------------------------------- C8
\* p is the first k elements of q
IsPrefix(p, q) == Len(p) <= Len(q) /\ p = SubSeq(q, 1, Len(p))

\* C8: when no listing is in progress, the games listed are the first pages
\* of the games of the store, each page of gamesPerPage games except the
\* last, and hasMoreGames is true exactly when games remain beyond them.
C8_PagesExact ==
  Quiescent =>
    LET all == OnlyGames(gamesDB, AllDocs(gamesDB)) IN
    /\ IsPrefix(gamesData, all)
    /\ Len(gamesData) % gamesPerPage = 0 \/ Len(gamesData) = Len(all)
    /\ hasMoreGames <=> Len(gamesData) < Len(all)

\* -------------------------------------------------------------------- C9
Tombstoned(doc) == Exists(doc) /\ doc.cur.deleted

\* C9: whenever no handler is running, no live comment or like of the local
\* comments store refers to a game that is tombstoned in the local games
\* store (in particular after a deleteGame has completed).
C9_NoOrphans ==
  Quiescent =>
    \A c \in CommentIds :
      Live(commentsDB[c]) => ~Tombstoned(gamesDB[commentsDB[c].cur.body.gameId])

\* ------------------------------------------------------------------- C10
\* C10: a watchDistantChanges invoked while the offline flag is set returns
\* at once: no replication and no fetchData is started, and the local
\* stores, the remote stores, the checkpoints and the lists are unchanged.
C10_OfflineShortCircuits ==
  [][(isOffline /\ ev'.op = "watchDistantChanges")
       => (ev'.res = "offline" /\ UNCHANGED <<dbs, ckpt, ui, tasks>>)]_vars

\* the sync was invoked offline while the local store had a game the remote
\* does not have
C10_Witness ==
  /\ isOffline /\ ev.op = "watchDistantChanges" /\ ev.res = "offline"
  /\ Live(gamesDB[1]) /\ ~Exists(remoteGamesDB[1])

\* ------------------------------------------------------------------- C11
\* C11: once the offline flag is set, a run in progress transfers no further
\* batch: it stops at the batch boundary.
C11_OfflineAbortsRun ==
  [][\A s \in Slots :
       (isOffline /\ IsRun(tasks[s]) /\ tasks[s].pc = "Transferring")
       => ~(IsRun(tasks'[s]) /\ tasks'[s].batch # tasks[s].batch)]_vars

\* ------------------------------------------------------------------- C12
\* C12: the step in which a replication run fails changes no store and no
\* checkpoint, and after it the diff of the next run in every direction is
\* the full set of revisions the destination lacks: everything the failed
\* run did not commit is transferred again.
C12_FailureKeepsCheckpoint ==
  [][ev'.res = "TransportFailure"
       => (UNCHANGED <<dbs, ckpt>> /\ \A i \in 1..4 : Diff(i)' = FullDiff(i)')]_vars

\* a push failed with the game still missing on the remote
C12_Witness ==
  /\ ev.op = "replicate" /\ ev.res = "TransportFailure"
  /\ Live(gamesDB[1]) /\ ~Exists(remoteGamesDB[1])
  /\ FullDiff(1) # {}

\* ------------------------------------------------------------------- C13
\* the task is inside a replication run (not in the fetchData that follows)
Phases == {"Diffing", "Transferring", "Resolving", "Checkpointing"}
InRun(t) == IsRun(t) /\ t.pc \in Phases

PhaseOrder ==
  {<<"Diffing", "Transferring">>, <<"Transferring", "Resolving">>,
   <<"Resolving", "Checkpointing">>}

\* C13: a run moves only Diffing -> Transferring -> Resolving ->
\* Checkpointing; it leaves for Idle from Checkpointing, or from any phase
\* with a transport failure; and a run that starts, starts at Diffing.
C13_PhaseOrder ==
  [][\A s \in Slots :
       LET a == tasks[s]
           b == tasks'[s] IN
       IF InRun(a) /\ InRun(b) /\ a.arg = b.arg
       THEN a.pc = b.pc \/ <<a.pc, b.pc>> \in PhaseOrder
       ELSE /\ InRun(a) => (ev'.res = "TransportFailure" \/ a.pc = "Checkpointing")
            /\ InRun(b) => b.pc = "Diffing"]_vars

\* the pull of a sync has committed a divergent revision and is about to
\* write its checkpoint
C13_Witness ==
  \E s \in Slots :
    /\ tasks[s].op = "sync" /\ tasks[s].arg = 2 /\ tasks[s].pc = "Checkpointing"
    /\ gamesDB[1].conflicts # {}

\* ------------------------------------------------------------------- C14
\* C14: a manual sync is one sequence: it starts with the games push; the
\* games pull, the comments push and the comments pull each begin in the
\* step in which the replication before leaves Checkpointing; and fetchData
\* begins in the step in which the comments pull leaves Checkpointing.
C14_SyncOrder ==
  [][\A s \in Slots :
       LET a == tasks[s]
           b == tasks'[s] IN
       /\ (b.op = "sync" /\ a.op # "sync") => (b.arg = 1 /\ b.pc = "Diffing")
       /\ (a.op = "sync" /\ b.op = "sync" /\ b.arg # a.arg)
            => (b.arg = a.arg + 1 /\ a.pc = "Checkpointing" /\ b.pc = "Diffing")
       /\ (a.op = "sync" /\ b.op = "sync" /\ InRun(a) /\ ~InRun(b))
            => (a.arg = 4 /\ a.pc = "Checkpointing" /\ b.pc = "find")
       /\ (a.op = "sync" /\ b.op = "sync" /\ ~InRun(a)) => ~InRun(b)]_vars

\* a sync has pushed a game, pulled, synchronised the comments and reached
\* its fetchData
C14_Witness ==
  \E s \in Slots :
    /\ tasks[s].op = "sync" /\ tasks[s].pc = "find" /\ tasks[s].arg = 4
    /\ Live(gamesDB[1]) /\ gamesDB[1].cur = remoteGamesDB[1].cur
    /\ ckpt["games.push"] > 0 /\ ckpt["games.pull"] > 0

\* ------------------------------------------------------------------- C15
\* C15: every transport failure of a replication reaches a caller: it is
\* never left unobserved.
C15_FailureSurfaced == ev.res = "TransportFailure" => ev.by = "rejected"

\* ------------------------------------------------------------------- C16
\* the current revision of every document of old is, in new, still current,
\* or beaten by the current one and kept as a conflict, or an ancestor of a
\* revision kept
Superseded(old, new) ==
  \A id \in DOMAIN old :
    Exists(old[id]) =>
      \/ new[id].cur = old[id].cur
      \/ IsAncestor(old[id].cur.rev, new[id].cur.rev)
      \/ /\ Beats(new[id].cur.rev, old[id].cur.rev)
         /\ \E c \in new[id].conflicts :
              c = old[id].cur \/ IsAncestor(old[id].cur.rev, c.rev)

C17_DeletesPropagate ==
  [][\A s \in Slots :
       /\ (tasks[s].op = "sync" /\ tasks[s].arg = 1 /\ tasks[s].pc = "Checkpointing"
           /\ tasks'[s].arg = 2 /\ Position(gamesDB) = tasks[s].pos)
            => \A id \in DOMAIN gamesDB :
                 Tombstoned(gamesDB[id]) => Known(remoteGamesDB[id], gamesDB[id].cur.rev)
       /\ (IsRun(tasks[s]) /\ tasks[s].arg = 2 /\ tasks[s].pc = "Resolving")
            => \A id \in DOMAIN gamesDB :
                 Tombstoned(gamesDB[id]) => ~Live(gamesDB'[id])]_vars

\* ------------------------------------------------------------------- C18
\* C18: an id whose current revision is a tombstone, in the local or in the
\* remote games store, is not readable in the next state: no put and no
\* replication brings it back.
C18_TombstonesPermanent ==
  [][\A id \in DOMAIN gamesDB :
       /\ Tombstoned(gamesDB[id]) => ~Live(gamesDB'[id])
       /\ Tombstoned(remoteGamesDB[id]) => ~Live(remoteGamesDB'[id])]_vars

\* ------------------------------------------------------------------- C19
\* C19: every creation succeeds: the id drawn from the clock is new in its
\* collection, so the put of addGame, addComment or toggleLike never meets
\* an existing document.
C19_CreatedIdsUnique ==
  ev.op \in {"addGame", "addComment", "toggleLike"} => ev.res = "ok"

\* ------------------------------------------------------------------- C20
\* the generation of the current revision of no document decreases
GenKept(old, new) ==
  \A id \in DOMAIN old : Exists(old[id]) => new[id].cur.rev.gen >= old[id].cur.rev.gen

OneCurrent(doc) ==
  /\ doc.conflicts # {} => Exists(doc)
  /\ \A c \in doc.conflicts : c.rev.gen > 0 /\ Divergent(c.rev, doc.cur.rev)
  /\ \A c \in doc.conflicts : \A d \in doc.conflicts : c # d => Divergent(c.rev, d.rev)

\* C21: in every state every id of the games stores has exactly one current
\* revision, and every other leaf revision of it is held as a conflict.
C21_OneCurrentRevision ==
  \A id \in DOMAIN gamesDB : OneCurrent(gamesDB[id]) /\ OneCurrent(remoteGamesDB[id])

\* the game has a current revision and two revisions in conflict with it
C21_Witness == Cardinality(remoteGamesDB[1].conflicts) = 2

\* -------------------------------------------------------------- C22, C23
\* C22: the putAttachment of an image upload (of addGame or of updateGame)
\* whose parent revision, the one the earlier put returned, is no longer the
\* document's current revision fails with Conflict and changes nothing.
C22_StaleAttachmentConflicts ==
  [][\A s \in Slots :
       (tasks[s].pc = "putAttachment" /\ tasks'[s] # tasks[s]
        /\ tasks[s].read.rev # gamesDB[tasks[s].id].cur.rev)
       => (/\ ev'.op = "putAttachment" /\ ev'.res = "Conflict"
           /\ gamesDB' = gamesDB /\ gameImages' = gameImages)]_vars

\* the new game of addGame was updated while its image was being read; the
\* upload was refused and the document is the update's revision, no image
C22_Witness ==
  /\ ev.op = "putAttachment" /\ ev.res = "Conflict" /\ ev.by = "addGame"
  /\ gamesDB[ev.id].cur.rev.gen = 2 /\ ~HasImage(gamesDB, ev.id)

\* the live game documents of a store, conflicting revisions included
GameLeaves(db) ==
  UNION {{l \in Leaves(db[id]) : ~l.deleted /\ l.body.kind = "game"} : id \in DOMAIN db}

\* C23: a put of a game whose required fields are blank fails with
\* InvalidDocument and leaves the store unchanged, and no game document
\* without its required fields is ever stored by addGame or updateGame.
C23_BlankFormRejected ==
  /\ [](\A l \in GameLeaves(gamesDB) : l.body.title # 0)
  /\ [][(ev'.op \in {"addGame", "updateGame.put"} /\ ev'.arg = 0)
        => (ev'.res = "InvalidDocument" /\ gamesDB' = gamesDB)]_vars

\* updateGame put a blank form over a live game and was refused
C23_Witness ==
  /\ ev.op = "updateGame.put" /\ ev.res = "InvalidDocument"
  /\ Live(gamesDB[ev.id]) /\ gamesDB[ev.id].cur.body.title # 0

\* -------------------------------------------------------------- C29, C30
\* C29: a deleteGameImage that removes the image leaves a document without
\* the 'image' binding, with the same game body, one generation later, and
\* touches no other document; a deleteGameImage on a game without an image,
\* or whose get or removal fails, changes neither the store nor the cached
\* images.
C29_DeleteImageFrame ==
  [][/\ (ev'.op = "removeAttachment" /\ ev'.res = "ok") =>
          /\ HasImage(gamesDB, ev'.id) /\ Live(gamesDB'[ev'.id])
          /\ gamesDB'[ev'.id].cur.body = [gamesDB[ev'.id].cur.body EXCEPT !.image = 0]
          /\ gamesDB'[ev'.id].cur.rev.gen = gamesDB[ev'.id].cur.rev.gen + 1
          /\ IsAncestor(gamesDB[ev'.id].cur.rev, gamesDB'[ev'.id].cur.rev)
          /\ \A o \in DocIds \ {ev'.id} : gamesDB'[o] = gamesDB[o]
     /\ ((ev'.op = "removeAttachment" /\ ev'.res # "ok") \/ ev'.op = "deleteGameImage")
          => (gamesDB' = gamesDB /\ gameImages' = gameImages)]_vars

\* the image of the listed game was removed: generation 2, no image, and the
\* title it had
C29_Witness ==
  /\ ev.op = "removeAttachment" /\ ev.res = "ok"
  /\ gamesDB[ev.id].cur.rev.gen = 2 /\ ~HasImage(gamesDB, ev.id)
  /\ gamesDB[ev.id].cur.body.title = 1

\* C30: the put of updateGame replaces the game fields and advances the
\* revision of that one document: the id, the deletion flag, the conflicts
\* and every other document are as before, and a document that had an
\* 'image' attachment still has it.
C30_UpdateKeepsImage ==
  [][(ev'.op = "updateGame.put" /\ ev'.res = "ok") =>
       /\ gamesDB'[ev'.id].cur.body = [gamesDB[ev'.id].cur.body EXCEPT !.title = ev'.arg]
       /\ gamesDB'[ev'.id].cur.rev.gen = gamesDB[ev'.id].cur.rev.gen + 1
       /\ gamesDB'[ev'.id].cur.deleted = gamesDB[ev'.id].cur.deleted
       /\ gamesDB'[ev'.id].conflicts = gamesDB[ev'.id].conflicts
       /\ HasImage(gamesDB, ev'.id) => HasImage(gamesDB', ev'.id)
       /\ \A o \in DocIds \ {ev'.id} : gamesDB'[o] = gamesDB[o]]_vars

\* a game with an image was given another title with no new image selected,
\* and the image is still bound to it
C30_Witness ==
  /\ ev.op = "updateGame.put" /\ ev.res = "ok"
  /\ HasImage(gamesDB, ev.id) /\ gamesDB[ev.id].cur.body.title = 2
  /\ \E s \in Slots : /\ At(s, "updateGame", "find")
                      /\ tasks[s].id = ev.id /\ ~tasks[s].img

\* ------------------------------------------------------------------- C24
\* str contains sub, letters compared without case
ContainsIgnoreCase(str, sub) ==
  \E i \in 0..(Len(str) - Len(sub)) :
    \A j \in 1..Len(sub) : Lower(sub[j]) = Lower(str[i + j])

\* C24: for every search text, searchGames lists exactly the live games
\* whose title contains the text ignoring case, and a blank or
\* whitespace-only text lists all the live games.
C24_SearchIsSubstring ==
  [][\A s \in Slots :
       /\ (At(s, "searchGames", "searchFind") /\ tasks'[s] # tasks[s])
            => Range(gamesData') =
                 {g \in LiveGames(gamesDB) :
                    ContainsIgnoreCase(TitleText(gamesDB[g].cur.body.title), tasks[s].text)}
       /\ (At(s, "searchGames", "find") /\ tasks'[s] # tasks[s])
            => Range(gamesData') = LiveGames(gamesDB)]_vars

\* ------------------------------------------------------------------- C25
\* C25: once all handlers have completed, the latest-comment view of every
\* listed game is the comment with the greatest createdAt among the
\* non-deleted comments of that game in the local store, or null when the
\* game has none.
C25_LastCommentCurrent ==
  Quiescent => \A g \in Range(gamesData) : commentsByGame[g] = LastComment(commentsDB, g)

\* ------------------------------------------------------------------- C26
\* C26: when no handler is running, the comment list shown for a listed game
\* is the non-deleted comments of that game in the local store, each once,
\* ordered by createdAt, newest first.
C26_CommentListExact ==
  Quiescent => \A g \in Range(gamesData) : commentsByGame[g] = CommentList(commentsDB, g)

\* ------------------------------------------------------------------- C27
\* the documents a listing may return: live, with a game body, id not reserved
Listable(db) ==
  {id \in DOMAIN db : Live(db[id]) /\ db[id].cur.body.kind = "game" /\ id # 0}

\* C27: a listing of fetchData returns exactly the live game documents whose
\* id is not reserved, each once and in increasing order of id (so no
\* tombstoned document, no document without a game body and no "_" id), it
\* leaves the store as it is, and a second listing of the unchanged store
\* returns the same sequence.
C27_ListingExact ==
  [][\A s \in Slots :
       (tasks[s].pc = "find" /\ tasks'[s] # tasks[s]) =>
         /\ Range(gamesData') = Listable(gamesDB)
         /\ \A i \in 1..(Len(gamesData') - 1) : gamesData'[i] < gamesData'[i + 1]
         /\ gamesDB' = gamesDB
         /\ (ev.op = "fetchData" /\ ev.res = "listed") => gamesData' = gamesData]_vars

\* two listings in a row returned the same two games, while the store also
\* holds a tombstone or a document under the reserved id
C27_Witness ==
  /\ ev.op = "fetchData" /\ ev.res = "listed" /\ ev.by = "addGame"
  /\ Len(gamesData) = 2
  /\ Exists(gamesDB[0])
  /\ \E s \in Slots : tasks[s].op = "startupGames" /\ tasks[s].pc = "perGame"

\* ------------------------------------------------------------------- C28
\* C28: once a sync has pushed and pulled the games and no write is made
\* afterwards, every later replication of the games diffs to nothing,
\* transfers nothing and leaves the local store, the remote store and their
\* conflicts exactly as that sync left them.
C28_SyncIdempotent ==
  [][ckpt["games.pull"] > 0 =>
       /\ gamesDB' = gamesDB /\ remoteGamesDB' = remoteGamesDB
       /\ \A s \in Slots : tasks'[s].diff = {} /\ tasks'[s].batch = {}]_vars

\* a second sync has diffed its games pull after a first one left a conflict
\* on both sides
C28_Witness ==
  /\ ckpt["games.pull"] > 0 /\ ckpt["games.push"] > 0
  /\ \E s \in Slots : tasks[s].op = "sync" /\ tasks[s].arg = 2 /\ tasks[s].pc = "Transferring"
  /\ gamesDB[1].conflicts # {} /\ gamesDB[1] = remoteGamesDB[1]

\* ------------------------------------------------------------------- C31
\* C31: when the image upload of addGame or updateGame has run, the game
\* document carries the 'image' attachment, whatever another handler wrote
\* between the document put and the attachment put.
C31_ImageAttached ==
  [][\A s \in Slots :
       (tasks[s].pc = "putAttachment" /\ tasks'[s] # tasks[s])
       => HasImage(gamesDB', tasks[s].id)]_vars

\* ------------------------------------------------------------------- C32
\* C32: when everything initDatabase started has ended, whether the startup
\* pull completed or failed, fetchData has run and gamesData is the live
\* games of the local store.
C32_StartupLists ==
  Quiescent => gamesData = SortedSeq(LiveGames(gamesDB))

\* ------------------------------------------------------------------- C33
\* C33: on a store that is not mutated, gamesData never holds a game twice,
\* and when nothing more can be loaded (no listing in progress and the
\* "load more" button is gone) it holds every live game of the store, also
\* when the store holds a document without a game body.
C33_LoadsEveryGameOnce ==
  /\ \A i \in 1..Len(gamesData) : \A j \in 1..Len(gamesData) :
       i # j => gamesData[i] # gamesData[j]
  /\ (Quiescent /\ ~hasMoreGames) => Range(gamesData) = LiveGames(gamesDB)

\* ------------------------------------------------------------------- C34
\* C34: while the search text is non-empty, whatever a handler assigns to
\* gamesData holds only games that match the search text (as searchGames
\* itself matches them).
C34_FilterKept ==
  [][(~IsBlank(searchTitle') /\ gamesData' # gamesData)
       => \A i \in 1..Len(gamesData') :
            /\ gamesData'[i] \in LiveGames(gamesDB')
            /\ RegexTest(searchTitle', TitleText(gamesDB'[gamesData'[i]].cur.body.title))]_vars

\* ------------------------------------------------------------------- C35
\* C35: once all the searchGames calls made have completed, the list shown
\* is the result for the latest search text (all the games for a blank
\* text), whatever the order in which overlapping calls completed.
C35_LatestSearchShown ==
  Quiescent =>
    gamesData = SortedSeq(IF IsBlank(searchTitle) THEN LiveGames(gamesDB)
                          ELSE Found(gamesDB, searchTitle))

\* ------------------------------------------------------------------- C36
\* C36: at most one manual sync run is in progress at any time.
C36_OneSyncAtATime ==
  Cardinality({s \in Slots : tasks[s].op = "sync"}) <= 1

\* ------------------------------------------------------------------- C37
\* C37: once fetchData has completed and no handler is running, the image
\* cache holds an image exactly for the listed games whose local document
\* has an 'image' attachment.
C37_CacheFollowsDocs ==
  Quiescent =>
    \A g \in DocIds :
      gameImages[g] <=> (g \in Range(gamesData) /\ HasImage(gamesDB, g))

\* ------------------------------------------------------------------- C38
\* the most recent live like of game g
LastLike(db, g) ==
  CHOOSE id \in FindByGame(db, "like", g) :
    \A other \in FindByGame(db, "like", g) : other[2] <= id[2]

\* C38: in the toggling variant every write of toggleLike(g) changes the
\* number of live likes of g by exactly one: it removes the most recent
\* like when the game has at least one like and adds one otherwise, also
\* when toggleLike calls overlap.
C38_ToggleByStore ==
  [][\A g \in DocIds :
       LET likes == FindByGame(commentsDB, "like", g)
           after == FindByGame(commentsDB', "like", g) IN
       (ev'.op \in {"toggleLike", "toggleLike.remove"} /\ ev'.res = "ok" /\ ev'.arg = g)
         => IF likes # {} THEN after = likes \ {LastLike(commentsDB, g)}
            ELSE Cardinality(after) = 1]_vars
====
